---- MODULE Spec2Model ----
(***************************************************************************)
(* itemservicecentral: the item storage and query engine.                 *)
(*                                                                         *)
(*   - the reconciliation ("migrate") engine over the PostgreSQL catalog   *)
(*     and the _meta table, and the API start-up hash validation           *)
(*     (internal/database/migrate.go, the config-hash file, main.go);      *)
(*   - the paginated reads of internal/database/store.go;                  *)
(*   - the write path of internal/handler/item.go and internal/model.      *)
(*                                                                         *)
(* Text values that the code orders or concatenates (table names, index    *)
(* names, pk/rk values, JSON string values) are sequences of one-character *)
(* strings, ordered bytewise.  Field names, which the code only compares   *)
(* for equality, are plain strings.                                        *)
(***************************************************************************)
EXTENDS Integers, Sequences, FiniteSets, TLC

VARIABLES
    db,     \* the committed PostgreSQL state: catalog, _meta rows, item rows
    tx,     \* the open migration transaction's view of the database, or NoTx
    mig,    \* the migrate command: position, arguments, outcome
    api,    \* the api command: start-up arguments and outcome
    page,   \* a client's page sequence over a list endpoint
    reqs,   \* the PATCH requests in flight, and their outcomes
    hist    \* the last answer and the last writes of the item endpoints

vars == <<db, tx, mig, api, page, reqs, hist>>

\* What the commands leave alone.
serveVars == <<page, reqs, hist>>

------------------------------------------------------------------------------
(* Text *)

\* ASCII codes of the characters the model uses.
Code == [c \in {"_", "a", "b", "c", "d", "e", "i", "k", "p", "s", "t", "x", "y"} |->
            CASE c = "_" -> 95  [] c = "a" -> 97  [] c = "b" -> 98
              [] c = "c" -> 99
              [] c = "d" -> 100 [] c = "e" -> 101 [] c = "i" -> 105
              [] c = "k" -> 107 [] c = "p" -> 112 [] c = "s" -> 115
              [] c = "t" -> 116
              [] c = "x" -> 120 [] c = "y" -> 121]

\* s < t for strings: bytewise lexicographic.
StrLess(s, t) ==
    \E i \in 1..(Len(t)) :
        /\ i <= Len(s) + 1
        /\ \A j \in 1..(i - 1) : s[j] = t[j]
        /\ \/ i = Len(s) + 1
           \/ Code[s[i]] < Code[t[i]]

EmptyFn == [k \in {} |-> k]

Remove(f, k) == [n \in DOMAIN f \ {k} |-> f[n]]

Upsert(f, k, v) == [n \in DOMAIN f \cup {k} |-> IF n = k THEN v ELSE f[n]]

------------------------------------------------------------------------------
(* Configuration: internal/config/config.go *)

Nil == [nil |-> TRUE]

KeyConfig(field) == [Field |-> field, Pattern |-> "^.*$"]

IndexConfig(name, pkField, rk) ==
    [Name |-> name, PrimaryKey |-> KeyConfig(pkField), RangeKey |-> rk,
     AllowIndexScan |-> TRUE]

TableConfig(name, pkField, rk, indexes) ==
    [Name |-> name, PrimaryKey |-> KeyConfig(pkField), RangeKey |-> rk,
     AllowTableScan |-> TRUE, Indexes |-> indexes]

\* Validate: the structural rules a configuration passes before migrate or
\* api touch the database.
Validate(tables) ==
    /\ Len(tables) > 0
    /\ \A i, j \in 1..Len(tables) : tables[i].Name = tables[j].Name => i = j
    /\ \A i \in 1..Len(tables) :
        LET t == tables[i] IN
        /\ t.Name # <<>>
        /\ t.PrimaryKey.Field # ""
        /\ t.RangeKey # Nil =>
              /\ t.RangeKey.Field # ""
              /\ t.RangeKey.Field # t.PrimaryKey.Field
        /\ \A m, n \in 1..Len(t.Indexes) :
              t.Indexes[m].Name = t.Indexes[n].Name => m = n
        /\ \A m \in 1..Len(t.Indexes) :
            LET idx == t.Indexes[m] IN
            /\ idx.Name # <<>>
            /\ idx.PrimaryKey.Field # ""
            /\ idx.PrimaryKey.Field # t.PrimaryKey.Field
            /\ t.RangeKey # Nil => idx.PrimaryKey.Field # t.RangeKey.Field
            /\ idx.RangeKey # Nil =>
                  /\ idx.RangeKey.Field # ""
                  /\ idx.RangeKey.Field # t.PrimaryKey.Field
                  /\ t.RangeKey # Nil => idx.RangeKey.Field # t.RangeKey.Field
                  /\ idx.RangeKey.Field # idx.PrimaryKey.Field

\* The configurations the commands are run with: one or two tables named
\* "a" and "b"; "a" varies its key fields and its single index.
IndexChoices ==
    { <<>>,
      << IndexConfig(<<"s">>, "status", Nil) >>,
      << IndexConfig(<<"s">>, "kind", Nil) >> }

TableChoices ==
    { TableConfig(<<"a">>, pk, rk, ix) :
        <<pk, rk, ix>> \in {"itemId", "id"} \X {Nil, KeyConfig("tenantId")} \X IndexChoices }
    \cup { TableConfig(<<"b">>, "orderId", Nil, <<>>) }

Configs ==
    { c \in { <<t>> : t \in TableChoices } \cup
            { <<t, u>> : <<t, u>> \in TableChoices \X TableChoices } :
        Validate(c) }

------------------------------------------------------------------------------
(* Structural fingerprint: internal/config/minimal_structure.go and the     *)
(* config-hash file of internal/database                                    *)

\* A minimal key that keeps the validation pattern.
MinimalKey_WithPattern(k) == [Field |-> k.Field, Pattern |-> k.Pattern]

MinimalKey(k) == [Field |-> k.Field]

\* A minimal index without its range key.
MinimalIndex_NoRangeKey(idx) ==
    [Name |-> idx.Name, PrimaryKey |-> MinimalKey(idx.PrimaryKey), RangeKey |-> Nil]

MinimalIndex(idx) ==
    [Name |-> idx.Name, PrimaryKey |-> MinimalKey(idx.PrimaryKey),
     RangeKey |-> IF idx.RangeKey # Nil THEN MinimalKey(idx.RangeKey) ELSE Nil]

MinimalTable(t) ==
    [Name |-> t.Name, PrimaryKey |-> MinimalKey(t.PrimaryKey),
     RangeKey |-> IF t.RangeKey # Nil THEN MinimalKey(t.RangeKey) ELSE Nil,
     Indexes |-> SortSeq([m \in 1..Len(t.Indexes) |-> MinimalIndex(t.Indexes[m])],
                         LAMBDA x, y : StrLess(x.Name, y.Name))]

\* The minimal structure with the tables in declaration order.
BuildMinimalTableStructure_Unsorted(tables) ==
    [Tables |-> [i \in 1..Len(tables) |-> MinimalTable(tables[i])]]

BuildMinimalTableStructure(tables) ==
    [Tables |-> SortSeq([i \in 1..Len(tables) |-> MinimalTable(tables[i])],
                        LAMBDA x, y : StrLess(x.Name, y.Name))]

\* The hex SHA-256 of the canonical YAML: a non-empty string that the model
\* takes to determine the YAML (no collisions).
TablesConfigHash(tables) == << BuildMinimalTableStructure(tables) >>

metaConfigHashRowName == <<"_", "m", "e", "t", "a">>

storedConfigHash(hash) == [configHash |-> hash]

metaConfig(t) ==
    [primaryKeyField |-> t.PrimaryKey.Field,
     rangeKeyField |-> IF t.RangeKey # Nil THEN t.RangeKey.Field ELSE ""]

------------------------------------------------------------------------------
(* The database as the migrate command sees it: internal/database/migrate.go *)

\* A database state: whether _meta exists, its rows (table_name -> config),
\* the item tables (name -> key layout and rows) and pg_indexes.
EmptyDB == [metaExists |-> FALSE, meta |-> EmptyFn, tables |-> EmptyFn, indexes |-> {}]

Ok(d) == [ok |-> TRUE, d |-> d, err |-> ""]

Err(d, why) == [ok |-> FALSE, d |-> d, err |-> why]

IndexName(t, idx) == <<"i", "d", "x", "_">> \o t.Name \o <<"_">> \o idx.Name

PKeyName(name) == name \o <<"_", "p", "k", "e", "y">>

\* indexname LIKE 'idx_%': "idx", any one character, then anything.
LikeIdx(name) == Len(name) >= 4 /\ SubSeq(name, 1, 3) = <<"i", "d", "x">>

\* CREATE TABLE IF NOT EXISTS _meta (... PRIMARY KEY (table_name))
createMetaTable(d) ==
    IF d.metaExists THEN d ELSE [d EXCEPT !.metaExists = TRUE, !.meta = EmptyFn]

\* CREATE TABLE IF NOT EXISTS: PRIMARY KEY (pk, rk) with a range key, else
\* PRIMARY KEY (pk); the key constraint brings its own index.
createTable(d, t) ==
    IF t.Name \in DOMAIN d.tables THEN d
    ELSE [d EXCEPT
            !.tables = Upsert(@, t.Name, [hasRK |-> t.RangeKey # Nil, rows |-> {}]),
            !.indexes = @ \cup
                {[indexname |-> PKeyName(t.Name), tablename |-> t.Name,
                  constraint |-> TRUE,
                  fields |-> IF t.RangeKey # Nil THEN <<"pk", "rk">> ELSE <<"pk">>]}]

\* CREATE INDEX IF NOT EXISTS name ON table ((data->>pk)[, (data->>rk)])
\* WHERE the key fields are not null.  An existing relation of that name
\* makes it a no-op; a missing table is an error.
createIndex(d, t, idx) ==
    IF \E i \in d.indexes : i.indexname = IndexName(t, idx) THEN Ok(d)
    ELSE IF t.Name \notin DOMAIN d.tables THEN Err(d, "failed to create index")
    ELSE Ok([d EXCEPT !.indexes = @ \cup
                {[indexname |-> IndexName(t, idx), tablename |-> t.Name,
                  constraint |-> FALSE,
                  fields |-> IF idx.RangeKey # Nil
                             THEN <<idx.PrimaryKey.Field, idx.RangeKey.Field>>
                             ELSE <<idx.PrimaryKey.Field>>]}])

\* The create loop of reconcileIndexes, from index m on.
RECURSIVE createMissingIndexes(_, _, _, _)
createMissingIndexes(d, t, opts, m) ==
    IF m > Len(t.Indexes) THEN Ok(d)
    ELSE LET idx == t.Indexes[m]
             exists == \E i \in d.indexes :
                          i.tablename = t.Name /\ i.indexname = IndexName(t, idx)
         IN  IF exists \/ opts.DryRun
             THEN createMissingIndexes(d, t, opts, m + 1)
             ELSE LET r == createIndex(d, t, idx)
                  IN  IF r.ok THEN createMissingIndexes(r.d, t, opts, m + 1) ELSE r

\* The cleanup loop of reconcileIndexes: DROP INDEX IF EXISTS of every
\* idx_% index of the table that is not desired.  PostgreSQL refuses to drop
\* the index of a key constraint.
dropStaleIndexes(d, t, opts) ==
    LET desired == {IndexName(t, t.Indexes[m]) : m \in 1..Len(t.Indexes)}
        stale == {i \in d.indexes :
                    /\ i.tablename = t.Name
                    /\ LikeIdx(i.indexname)
                    /\ i.indexname \notin desired}
    IN  IF opts.DryRun THEN Ok(d)
        ELSE IF \E i \in stale : i.constraint THEN Err(d, "dropping index")
        ELSE Ok([d EXCEPT !.indexes = @ \ stale])

\* reconcileIndexes that drops the stale indexes whatever the options.
reconcileIndexes_AlwaysDrops(d, t, opts) ==
    LET r == createMissingIndexes(d, t, opts, 1)
    IN  IF ~r.ok THEN r ELSE dropStaleIndexes(r.d, t, opts)

\* reconcileIndexes: create what is missing; with Cleanup, drop what is stale.
reconcileIndexes(d, t, opts) ==
    LET r == createMissingIndexes(d, t, opts, 1)
    IN  IF ~r.ok THEN r
        ELSE IF opts.Cleanup THEN dropStaleIndexes(r.d, t, opts)
        ELSE r

\* keyFieldCheck that takes a table recorded without a range key as changed.
keyFieldCheck_NoRangeKeyIsChange(existing, mc) ==
    IF existing.primaryKeyField # mc.primaryKeyField THEN "primaryKey field changed"
    ELSE IF existing.rangeKeyField = "" \/ existing.rangeKeyField # mc.rangeKeyField
         THEN "rangeKey field changed"
    ELSE ""

\* keyFieldCheck without its rangeKey comparison.
keyFieldCheck_PrimaryOnly(existing, mc) ==
    IF existing.primaryKeyField # mc.primaryKeyField THEN "primaryKey field changed"
    ELSE ""

\* The key-field comparison of reconcileTable against the recorded entry:
\* "" when the key fields are the recorded ones, else the error.
keyFieldCheck(existing, mc) ==
    IF existing.primaryKeyField # mc.primaryKeyField THEN "primaryKey field changed"
    ELSE IF existing.rangeKeyField # mc.rangeKeyField THEN "rangeKey field changed"
    ELSE ""

reconcileTable(d, t, opts) ==
    LET mc == metaConfig(t) IN
    IF t.Name \notin DOMAIN d.meta
    THEN \* new table
         IF opts.DryRun THEN reconcileIndexes(d, t, opts)
         ELSE reconcileIndexes(
                 [createTable(d, t) EXCEPT !.meta = Upsert(@, t.Name, mc)], t, opts)
    ELSE IF keyFieldCheck(d.meta[t.Name], mc) # ""
         THEN Err(d, keyFieldCheck(d.meta[t.Name], mc))
    ELSE reconcileIndexes(d, t, opts)

\* A cleanup that finds nothing to drop.
cleanupKeeps_Everything(name, configuredTables) == TRUE

\* The rows of _meta that cleanupTables leaves alone.
cleanupKeeps(name, configuredTables) ==
    name = metaConfigHashRowName \/ name \in configuredTables

\* DROP TABLE IF EXISTS (with its indexes) and DELETE FROM _meta for every
\* recorded table that is not configured.
cleanupTables(d, configuredTables, dryRun) ==
    LET toDrop == {n \in DOMAIN d.meta : ~cleanupKeeps(n, configuredTables)}
    IN  IF dryRun THEN d
        ELSE [d EXCEPT
                !.tables = [n \in DOMAIN @ \ toDrop |-> @[n]],
                !.indexes = {i \in @ : i.tablename \notin toDrop},
                !.meta = [n \in DOMAIN @ \ toDrop |-> @[n]]]

\* upsertRow as ON CONFLICT DO NOTHING.
upsertRow_DoNothing(meta, name, config) ==
    IF name \in DOMAIN meta THEN meta ELSE Upsert(meta, name, config)

\* INSERT INTO _meta ... ON CONFLICT (table_name) DO UPDATE SET config
upsertRow(meta, name, config) == Upsert(meta, name, config)

upsertTablesConfigHash(d, tables, dryRun) ==
    IF dryRun THEN d
    ELSE [d EXCEPT !.meta =
            upsertRow(@, metaConfigHashRowName, storedConfigHash(TablesConfigHash(tables)))]

\* Rollback that keeps what the statements did (statements run outside the
\* transaction).
Rollback_Autocommit(committed, working) == working

\* What a transaction that ends without commit leaves: defer tx.Rollback().
Rollback(committed, working) == committed

\* MigrateEnd without the dry-run return.
MigrateEnd_NoDryRunReturn(committed, working, opts, commitFails) ==
    IF commitFails THEN Rollback(committed, working) ELSE working

\* The end of Migrate: dry-run rolls back, otherwise commit (which may fail).
MigrateEnd(committed, working, opts, commitFails) ==
    IF opts.DryRun THEN Rollback(committed, working)
    ELSE IF commitFails THEN Rollback(committed, working)
    ELSE working

\* The table loop of Migrate from table i on: the first error ends it.
RECURSIVE reconcileAll(_, _, _, _)
reconcileAll(d, tables, opts, i) ==
    IF i > Len(tables) THEN Ok(d)
    ELSE LET r == reconcileTable(d, tables[i], opts)
         IN  IF r.ok THEN reconcileAll(r.d, tables, opts, i + 1) ELSE r

\* Migrate as one function of the database it finds, when no statement
\* fails for a reason outside the model: the database it leaves, or the
\* error with the database rolled back.
Migrate(d, tables, opts) ==
    LET r == reconcileAll(createMetaTable(d), tables, opts, 1)
        configuredTables == {tables[i].Name : i \in 1..Len(tables)}
    IN  IF ~r.ok THEN Err(Rollback(d, r.d), r.err)
        ELSE LET c == IF opts.Cleanup
                      THEN cleanupTables(r.d, configuredTables, opts.DryRun)
                      ELSE r.d
                 h == upsertTablesConfigHash(c, tables, opts.DryRun)
             IN  Ok(MigrateEnd(d, h, opts, FALSE))

------------------------------------------------------------------------------
(* API start-up: ValidateTablesConfigHash and runAPI *)

ValidateTablesConfigHash(d, tables) ==
    LET expectedHash == TablesConfigHash(tables) IN
    IF ~d.metaExists THEN "undefined_table"
    ELSE IF metaConfigHashRowName \notin DOMAIN d.meta THEN "missing"
    ELSE LET row == d.meta[metaConfigHashRowName]
             stored == IF "configHash" \in DOMAIN row THEN row.configHash ELSE <<>>
         IN  IF stored = <<>> THEN "empty"
             ELSE IF stored # expectedHash THEN "mismatch"
             ELSE "ok"

\* runAPI that logs a failed validation and goes on.
runAPI_NotFatal(d, tables, skipConfigValidation) == "serving"

\* runAPI up to the point where it serves or dies.
runAPI(d, tables, skipConfigValidation) ==
    IF skipConfigValidation THEN "serving"
    ELSE IF ValidateTablesConfigHash(d, tables) # "ok" THEN "fatal"
    ELSE "serving"

------------------------------------------------------------------------------
(* JSON payloads and the paginated reads: internal/database/store.go *)

\* A payload (the data column, a Go map[string]interface{}) is a function
\* from field names to JSON values.
JStr(s) == [t |-> "string", v |-> s]

JNull == [t |-> "null"]

JObj(m) == [t |-> "object", v |-> m]

\* SQL NULL: no text value is written with this one element.
Null == <<"NULL">>

\* data->>'field': the text of a scalar, SQL NULL for an absent field and
\* for a JSON null.
Extract(data, field) ==
    IF field \notin DOMAIN data THEN Null
    ELSE IF data[field].t = "string" THEN data[field].v
    ELSE Null

\* An expression of a query: a column (pk, rk) or data->>'field'.
Col(name) == [kind |-> "col", name |-> name]

JsonText(field) == [kind |-> "json", name |-> field]

\* The empty expression (rkExpr == "").
NoExpr == [kind |-> "none", name |-> ""]

Eval(expr, row) ==
    CASE expr.kind = "col"  -> row[expr.name]
      [] expr.kind = "json" -> Extract(row.data, expr.name)
      [] OTHER              -> Null

ListOptions(limit, cursorStr, rkGt) ==
    [Limit |-> limit, Cursor |-> cursorStr, RKBeginsWith |-> <<>>, RKGt |-> rkGt,
     RKGte |-> <<>>, RKLt |-> <<>>, RKLte |-> <<>>]

IndexQueryConfig(idx) ==
    [PKField |-> idx.PrimaryKey.Field,
     RKField |-> IF idx.RangeKey # Nil THEN idx.RangeKey.Field ELSE ""]

\* A cursor string is the base64url text of a JSON object; the model keeps
\* the object: <<>> is the empty string, << object >> an encoded one, and
\* an object with the field "garbage" stands for text that does not decode.
\* The rk member is omitted when it is empty (omitempty).
encodeCursor(pk, rk) ==
    << IF rk = <<>> THEN [pk |-> pk] ELSE [pk |-> pk, rk |-> rk] >>

decodeCursor(s) ==
    LET j == s[1] IN
    IF "garbage" \in DOMAIN j
    THEN [err |-> TRUE, c |-> [PK |-> <<>>, RK |-> <<>>]]
    ELSE [err |-> FALSE,
          c |-> [PK |-> IF "pk" \in DOMAIN j THEN j.pk ELSE <<>>,
                 RK |-> IF "rk" \in DOMAIN j THEN j.rk ELSE <<>>]]

\* A WHERE clause is the set of its conditions, joined by AND.  A condition
\* whose value is SQL NULL rejects the row, as one that is false does.
\* prefix LIKE: "_" in the pattern matches any one character.
LikePrefix(v, p) ==
    /\ Len(v) >= Len(p)
    /\ \A i \in 1..Len(p) : p[i] = "_" \/ p[i] = v[i]

\* A condition is [op, expr, arg, arg2]; arg2 is used by the row comparison.
Cond(op, expr, arg) == [op |-> op, expr |-> expr, arg |-> arg, arg2 |-> <<>>]

Holds(cond, row) ==
    LET v == Eval(cond.expr, row) IN
    CASE cond.op = "eq"      -> v # Null /\ v = cond.arg
      [] cond.op = "notnull" -> v # Null
      [] cond.op = "like"    -> v # Null /\ LikePrefix(v, cond.arg)
      [] cond.op = "gt"      -> v # Null /\ StrLess(cond.arg, v)
      [] cond.op = "gte"     -> v # Null /\ (v = cond.arg \/ StrLess(cond.arg, v))
      [] cond.op = "lt"      -> v # Null /\ StrLess(v, cond.arg)
      [] cond.op = "lte"     -> v # Null /\ (v = cond.arg \/ StrLess(v, cond.arg))
      \* (pk, expr) > (arg, arg2): row comparison, left to right
      [] cond.op = "rowgt"   ->
            \/ StrLess(cond.arg, row.pk)
            \/ /\ row.pk = cond.arg
               /\ v # Null
               /\ StrLess(cond.arg2, v)

\* The range-key conditions over the expression expr, one for each option
\* that is not empty.
rkFilters(expr, opts) ==
    { c \in { Cond("like", expr, opts.RKBeginsWith), Cond("gt", expr, opts.RKGt),
              Cond("gte", expr, opts.RKGte), Cond("lt", expr, opts.RKLt),
              Cond("lte", expr, opts.RKLte) } : c.arg # <<>> }

appendRKFilters(where, hasRK, opts) ==
    IF ~hasRK THEN where ELSE where \cup rkFilters(Col("rk"), opts)

appendIndexRKFilters(where, rkExpr, opts) == where \cup rkFilters(rkExpr, opts)

\* A cursor condition that compares pk alone whatever the ordering.
appendCursorFilter_PKOnly(where, hasRK, cursorStr, rkExpr) ==
    IF cursorStr = <<>> THEN where
    ELSE LET d == decodeCursor(cursorStr) IN
         IF d.err THEN where
         ELSE where \cup {Cond("gt", Col("pk"), d.c.PK)}

\* A cursor condition that lets no row pass an undecodable cursor.
appendCursorFilter_Strict(where, hasRK, cursorStr, rkExpr) ==
    IF cursorStr = <<>> THEN where
    ELSE LET d == decodeCursor(cursorStr) IN
         IF d.err THEN where \cup {Cond("eq", Col("pk"), <<>>)}
         ELSE IF hasRK /\ rkExpr # NoExpr
         THEN where \cup {[op |-> "rowgt", expr |-> rkExpr, arg |-> d.c.PK, arg2 |-> d.c.RK]}
         ELSE where \cup {Cond("gt", Col("pk"), d.c.PK)}

\* The cursor condition: none for an empty or undecodable cursor; the row
\* comparison when the query has a range key expression, else pk alone.
\* The cursor always holds the row's own pk and rk columns.
appendCursorFilter(where, hasRK, cursorStr, rkExpr) ==
    IF cursorStr = <<>> THEN where
    ELSE LET d == decodeCursor(cursorStr) IN
         IF d.err THEN where
         ELSE IF hasRK /\ rkExpr # NoExpr
         THEN where \cup {[op |-> "rowgt", expr |-> rkExpr, arg |-> d.c.PK, arg2 |-> d.c.RK]}
         ELSE where \cup {Cond("gt", Col("pk"), d.c.PK)}

\* ORDER BY ... ASC: text bytewise, NULLs last.
ValueLE(a, b) == b = Null \/ (a # Null /\ (a = b \/ StrLess(a, b)))

OrderLE(r, s, hasRK, pkExpr, rkExpr) ==
    LET a == Eval(pkExpr, r)
        b == Eval(pkExpr, s)
    IN  IF a # b THEN ValueLE(a, b)
        ELSE ~hasRK \/ ValueLE(Eval(rkExpr, r), Eval(rkExpr, s))

\* The orders in which the database may return the rows of S: every
\* arrangement that ORDER BY admits; rows that tie come in any order.
ResultOrders(S, hasRK, pkExpr, rkExpr) ==
    { o \in [1..Cardinality(S) -> S] :
        /\ \A i, j \in 1..Cardinality(S) : o[i] = o[j] => i = j
        /\ \A i, j \in 1..Cardinality(S) :
              i < j => OrderLE(o[i], o[j], hasRK, pkExpr, rkExpr) }

\* A collected row: rk is "" when the column is NULL.
rowData(row) ==
    [pk |-> row.pk, rk |-> IF row.rk = Null THEN <<>> ELSE row.rk, data |-> row.data]

DefaultLimit == 50

\* queryItems that fetches limit rows and emits a cursor after a full page.
queryItems_NoLookahead(d, table, where, limit, hasRK, pkExpr, rkExpr) ==
    LET lim == IF limit <= 0 THEN DefaultLimit ELSE limit
        matching == { r \in d.tables[table].rows : \A c \in where : Holds(c, r) }
    IN  { LET collected == IF Len(o) > lim THEN SubSeq(o, 1, lim) ELSE o
          IN  [Items |-> [i \in 1..Len(collected) |-> rowData(collected[i])],
               NextCursor |->
                  IF Len(collected) = lim
                  THEN encodeCursor(rowData(collected[Len(collected)]).pk,
                                    rowData(collected[Len(collected)]).rk)
                  ELSE <<>>]
          : o \in ResultOrders(matching, hasRK, pkExpr, rkExpr) }

\* queryItems whose cursor comparison is against the cursor's row as the
\* table holds it now (a subquery): when that row is gone the comparison is
\* against NULL and no row passes.
queryItems_CursorBySubquery(d, table, where, limit, hasRK, pkExpr, rkExpr) ==
    LET lim == IF limit <= 0 THEN DefaultLimit ELSE limit
        fetchLimit == lim + 1
        rows == d.tables[table].rows
        cursorRowThere ==
            \A c \in where :
                /\ c.op = "rowgt" => \E q \in rows : q.pk = c.arg /\ q.rk = c.arg2
                /\ (c.op = "gt" /\ c.expr = Col("pk")) => \E q \in rows : q.pk = c.arg
        matching == { r \in rows : cursorRowThere /\ \A c \in where : Holds(c, r) }
    IN  { LET fetched == IF Len(o) > fetchLimit THEN SubSeq(o, 1, fetchLimit) ELSE o
              hasMore == Len(fetched) > lim
              collected == IF hasMore THEN SubSeq(fetched, 1, lim) ELSE fetched
          IN  [Items |-> [i \in 1..Len(collected) |-> rowData(collected[i])],
               NextCursor |->
                  IF hasMore /\ Len(collected) > 0
                  THEN encodeCursor(rowData(collected[Len(collected)]).pk,
                                    rowData(collected[Len(collected)]).rk)
                  ELSE <<>>]
          : o \in ResultOrders(matching, hasRK, pkExpr, rkExpr) }

\* queryItems: SELECT pk, rk, data ... WHERE ... ORDER BY ... LIMIT limit+1;
\* one result for each order the database may answer in.  Items keeps each
\* collected row (pk, rk, data), which is what identifies an item.
queryItems(d, table, where, limit, hasRK, pkExpr, rkExpr) ==
    LET lim == IF limit <= 0 THEN DefaultLimit ELSE limit
        fetchLimit == lim + 1
        matching == { r \in d.tables[table].rows : \A c \in where : Holds(c, r) }
    IN  { LET fetched == IF Len(o) > fetchLimit THEN SubSeq(o, 1, fetchLimit) ELSE o
              hasMore == Len(fetched) > lim
              collected == IF hasMore THEN SubSeq(fetched, 1, lim) ELSE fetched
          IN  [Items |-> [i \in 1..Len(collected) |-> rowData(collected[i])],
               NextCursor |->
                  IF hasMore /\ Len(collected) > 0
                  THEN encodeCursor(rowData(collected[Len(collected)]).pk,
                                    rowData(collected[Len(collected)]).rk)
                  ELSE <<>>]
          : o \in ResultOrders(matching, hasRK, pkExpr, rkExpr) }

ListItems(d, table, pk, hasRK, opts) ==
    queryItems(d, table,
        appendCursorFilter(
            appendRKFilters({Cond("eq", Col("pk"), pk)}, hasRK, opts),
            hasRK, opts.Cursor, Col("rk")),
        opts.Limit, hasRK, Col("pk"), Col("rk"))

ScanTable(d, table, hasRK, opts) ==
    queryItems(d, table,
        appendCursorFilter({}, hasRK, opts.Cursor, Col("rk")),
        opts.Limit, hasRK, Col("pk"), Col("rk"))

QueryIndex(d, table, index, indexPk, opts) ==
    LET pkExpr == JsonText(index.PKField)
        hasRK == index.RKField # ""
        rkExpr == IF hasRK THEN JsonText(index.RKField) ELSE NoExpr
        where == {Cond("eq", pkExpr, indexPk)}
        where2 == IF hasRK THEN appendIndexRKFilters(where, rkExpr, opts) ELSE where
    IN  queryItems(d, table,
            appendCursorFilter(where2, hasRK, opts.Cursor, rkExpr),
            opts.Limit, hasRK, pkExpr, rkExpr)

ScanIndex(d, table, index, opts) ==
    LET pkExpr == JsonText(index.PKField)
        hasRK == index.RKField # ""
        rkExpr == IF hasRK THEN JsonText(index.RKField) ELSE NoExpr
        where == {Cond("notnull", pkExpr, <<>>)}
                 \cup (IF hasRK THEN {Cond("notnull", rkExpr, <<>>)} ELSE {})
    IN  queryItems(d, table,
            appendCursorFilter(where, hasRK, opts.Cursor, rkExpr),
            opts.Limit, hasRK, pkExpr, rkExpr)

\* No page sequence is open.  sent is the cursor of the client's last call;
\* since and at are the numbers of requests the server had received when
\* the sequence began and at its last call.
PageIdle ==
    [op |-> "none", index |-> 0, pk |-> <<>>, opts |-> ListOptions(0, <<>>, <<>>),
     items |-> <<>>, calls |-> 0, done |-> FALSE, sent |-> <<>>, since |-> 0, at |-> 0]

------------------------------------------------------------------------------
(* The write path: internal/model/model.go, the single-item statements of   *)
(* internal/database/store.go and the table's document schema               *)

\* StripKeys that leaves the range key field in the document.
StripKeys_PKOnly(data, pkField, rkField) ==
    [k \in { k \in DOMAIN data : k # pkField } |-> data[k]]

\* StripKeys: the document without the pk field and, when rkField is not
\* empty, without the rk field.
StripKeys(data, pkField, rkField) ==
    [k \in { k \in DOMAIN data : k # pkField /\ ~(rkField # "" /\ k = rkField) } |-> data[k]]

\* InjectKeys: the document with the key values set under the key fields.
InjectKeys(data, pkField, pkValue, rkField, rkValue) ==
    [k \in DOMAIN data \cup {pkField} \cup (IF rkField # "" THEN {rkField} ELSE {}) |->
        IF k = pkField THEN JStr(pkValue)
        ELSE IF rkField # "" /\ k = rkField THEN JStr(rkValue)
        ELSE data[k]]

\* MergePatch: a null removes the key; an object merges into an object;
\* anything else is set as it is.
RECURSIVE MergePatch(_, _)
MergePatch(target, patch) ==
    LET removed == { k \in DOMAIN patch : patch[k].t = "null" } IN
    [k \in (DOMAIN target \cup DOMAIN patch) \ removed |->
        IF k \notin DOMAIN patch THEN target[k]
        ELSE IF patch[k].t = "object" /\ k \in DOMAIN target /\ target[k].t = "object"
        THEN JObj(MergePatch(target[k].v, patch[k].v))
        ELSE patch[k]]

\* GetItem that answers an empty document for a key without a row.
GetItem_NoNotFound(d, table, pk, rk) ==
    LET hit == { r \in d.tables[table].rows : r.pk = pk /\ (rk # Null => r.rk = rk) } IN
    [found |-> TRUE, data |-> IF hit = {} THEN EmptyFn ELSE (CHOOSE r \in hit : TRUE).data]

\* SELECT data ... WHERE pk = $1 [AND rk = $2]; rk is Null for a nil pointer.
GetItem(d, table, pk, rk) ==
    LET hit == { r \in d.tables[table].rows : r.pk = pk /\ (rk # Null => r.rk = rk) } IN
    IF hit = {} THEN [found |-> FALSE, data |-> EmptyFn]
    ELSE [found |-> TRUE, data |-> (CHOOSE r \in hit : TRUE).data]

\* A table without its primary key constraint: nothing conflicts.
Conflicting_None(rows, pk, rk) == {}

\* The rows that conflict with (pk, rk) on the statement's conflict target.
Conflicting(rows, pk, rk) ==
    { r \in rows : r.pk = pk /\ (rk # Null => r.rk = rk) }

\* An upsert that merges the new payload into the stored one.
PutItem_Merge(d, table, pk, rk, data) ==
    LET old == Conflicting(d.tables[table].rows, pk, rk)
        base == IF old = {} THEN EmptyFn ELSE (CHOOSE r \in old : TRUE).data
    IN  [d EXCEPT !.tables[table].rows =
            (@ \ old) \cup {[pk |-> pk, rk |-> rk, data |-> MergePatch(base, data)]}]

\* An insert that leaves an existing row as it is.
PutItem_InsertOnly(d, table, pk, rk, data) ==
    IF Conflicting(d.tables[table].rows, pk, rk) # {} THEN d
    ELSE [d EXCEPT !.tables[table].rows = @ \cup {[pk |-> pk, rk |-> rk, data |-> data]}]

\* INSERT ... ON CONFLICT (pk[, rk]) DO UPDATE SET data = $n
PutItem(d, table, pk, rk, data) ==
    [d EXCEPT !.tables[table].rows =
        (@ \ Conflicting(@, pk, rk)) \cup {[pk |-> pk, rk |-> rk, data |-> data]}]

\* DELETE ... WHERE pk = $1 [AND rk = $2]
DeleteItem(d, table, pk, rk) ==
    [d EXCEPT !.tables[table].rows = @ \ Conflicting(@, pk, rk)]

\* The document schema of the served table: a closed object whose key fields
\* are required strings, with an optional string status and an optional
\* closed object meta holding an optional string note.
SchemaValidate(th, doc) ==
    LET rkFields == IF th.RangeKey # Nil THEN {th.RangeKey.Field} ELSE {}
        keyFields == {th.PrimaryKey.Field} \cup rkFields
    IN  /\ keyFields \subseteq DOMAIN doc
        /\ DOMAIN doc \subseteq keyFields \cup {"status", "meta"}
        /\ \A k \in DOMAIN doc \ {"meta"} : doc[k].t = "string"
        /\ "meta" \in DOMAIN doc =>
              /\ doc["meta"].t = "object"
              /\ DOMAIN doc["meta"].v \subseteq {"note"}
              /\ \A k \in DOMAIN doc["meta"].v : doc["meta"].v[k].t = "string"

\* A body check that accepts any value of the key field.
BodyKeyMatches_AnyValue(doc, field, value) == TRUE

\* The body's key field, when present, is the string of the URL.
BodyKeyMatches(doc, field, value) ==
    field \in DOMAIN doc => doc[field] = JStr(value)

\* The tail of PUT and PATCH with the write before the validation.
validateAndPut_PutFirst(d, th, pk, rk, doc) ==
    [status |-> IF SchemaValidate(th, doc) THEN 200 ELSE 400,
     db |-> PutItem(d, th.Name, pk, rk,
                    StripKeys(doc, th.PrimaryKey.Field,
                              IF th.RangeKey # Nil THEN th.RangeKey.Field ELSE ""))]

\* The tail of PUT and PATCH: validate the document with its keys; 400 and
\* no statement when it fails, else upsert the stripped document.
validateAndPut(d, th, pk, rk, doc) ==
    IF ~SchemaValidate(th, doc) THEN [status |-> 400, db |-> d]
    ELSE [status |-> 200,
          db |-> PutItem(d, th.Name, pk, rk,
                         StripKeys(doc, th.PrimaryKey.Field,
                                   IF th.RangeKey # Nil THEN th.RangeKey.Field ELSE ""))]

\* A request slot: a PATCH between its read and its write, or its outcome.
\* over: the writer whose row the slot's write replaced.
SlotIdle ==
    [pc |-> "idle", pk |-> <<>>, rk |-> <<>>, patch |-> EmptyFn,
     found |-> FALSE, existing |-> EmptyFn, status |-> 0, over |-> 0]

Slots == {1, 2}

\* No request yet.  op is the last handler that answered, with its path
\* key, status and body; put maps a key whose last write was a PUT to that
\* PUT's document and to what the key held before it; writer is the slot of
\* the PATCH that wrote last, 0 when the last write was not a PATCH.
\* n counts the requests received; body is the body of the last request
\* when that was a PUT.
HistEmpty ==
    [op |-> "none", key |-> <<>>, status |-> 0, resp |-> EmptyFn,
     put |-> EmptyFn, writer |-> 0, n |-> 0, body |-> EmptyFn]

------------------------------------------------------------------------------
(* The commands as a state machine *)

\* result: "none" (no run), "running", "ok" or "error"; err: the error's
\* text; snapshot: the database as the run found it.
MigIdle == [pc |-> "idle", tables |-> <<>>, opts |-> Nil, i |-> 0,
            result |-> "none", err |-> "", snapshot |-> Nil]

ApiDown == [state |-> "down", tables |-> <<>>, skip |-> FALSE]

MigrateOptions == [Cleanup : BOOLEAN, DryRun : BOOLEAN]

\* Databases the commands may find: a fresh one, one whose _meta holds no
\* hash row, one whose hash row is empty.
InitialDBs ==
    { EmptyDB,
      [EmptyDB EXCEPT !.metaExists = TRUE],
      [EmptyDB EXCEPT !.metaExists = TRUE,
                      !.meta = metaConfigHashRowName :> storedConfigHash(<<>>)] }

Init ==
    /\ db \in InitialDBs
    /\ tx = Nil
    /\ mig = MigIdle
    /\ api = ApiDown
    /\ page = PageIdle
    /\ reqs = [s \in Slots |-> SlotIdle]
    /\ hist = HistEmpty

Quiet == mig = MigIdle /\ api = ApiDown

\* The run ends in an error: the deferred rollback discards the transaction.
Abort(why) ==
    /\ db' = Rollback(db, tx)
    /\ tx' = Nil
    /\ mig' = [mig EXCEPT !.pc = "idle", !.result = "error", !.err = why]

MigrateBegin(tables, opts, fail) ==
    /\ Quiet
    /\ IF fail
       THEN /\ mig' = [MigIdle EXCEPT !.tables = tables, !.opts = opts,
                                      !.result = "error", !.snapshot = db,
                                      !.err = "failed to begin migration transaction"]
            /\ UNCHANGED tx
       ELSE /\ mig' = [pc |-> "createMetaTable", tables |-> tables, opts |-> opts,
                       i |-> 1, result |-> "running", err |-> "", snapshot |-> db]
            /\ tx' = db
    /\ UNCHANGED <<db, api>>
    /\ UNCHANGED serveVars

MigrateCreateMetaTable(fail) ==
    /\ mig.pc = "createMetaTable"
    /\ IF fail THEN Abort("_meta table: storage error")
       ELSE /\ tx' = createMetaTable(tx)
            /\ mig' = [mig EXCEPT !.pc = "reconcileTable"]
            /\ UNCHANGED db
    /\ UNCHANGED api
    /\ UNCHANGED serveVars

AfterTables == IF mig.opts.Cleanup THEN "cleanupTables" ELSE "upsertTablesConfigHash"

MigrateReconcileTable(fail) ==
    /\ mig.pc = "reconcileTable"
    /\ mig.i <= Len(mig.tables)
    /\ LET r == reconcileTable(tx, mig.tables[mig.i], mig.opts) IN
       IF fail THEN Abort("table: storage error")
       ELSE IF ~r.ok THEN Abort(r.err)
       ELSE /\ tx' = r.d
            /\ mig' = [mig EXCEPT !.i = @ + 1,
                                  !.pc = IF mig.i = Len(mig.tables)
                                         THEN AfterTables ELSE @]
            /\ UNCHANGED db
    /\ UNCHANGED api
    /\ UNCHANGED serveVars

MigrateCleanupTables(fail) ==
    /\ mig.pc = "cleanupTables"
    /\ IF fail THEN Abort("cleanup: storage error")
       ELSE /\ tx' = cleanupTables(tx,
                        {mig.tables[i].Name : i \in 1..Len(mig.tables)},
                        mig.opts.DryRun)
            /\ mig' = [mig EXCEPT !.pc = "upsertTablesConfigHash"]
            /\ UNCHANGED db
    /\ UNCHANGED api
    /\ UNCHANGED serveVars

MigrateUpsertHash(fail) ==
    /\ mig.pc = "upsertTablesConfigHash"
    /\ IF fail THEN Abort("store config hash: storage error")
       ELSE /\ tx' = upsertTablesConfigHash(tx, mig.tables, mig.opts.DryRun)
            /\ mig' = [mig EXCEPT !.pc = "commit"]
            /\ UNCHANGED db
    /\ UNCHANGED api
    /\ UNCHANGED serveVars

MigrateFinish(fail) ==
    /\ mig.pc = "commit"
    /\ db' = MigrateEnd(db, tx, mig.opts, fail)
    /\ tx' = Nil
    /\ mig' = [mig EXCEPT !.pc = "idle",
                          !.result = IF fail /\ ~mig.opts.DryRun THEN "error" ELSE "ok",
                          !.err = IF fail /\ ~mig.opts.DryRun
                                  THEN "failed to commit migration transaction" ELSE ""]
    /\ UNCHANGED api
    /\ UNCHANGED serveVars

\* The migrate process exits.
MigrateExit ==
    /\ mig.pc = "idle"
    /\ mig.result \in {"ok", "error"}
    /\ mig' = MigIdle
    /\ UNCHANGED <<db, tx, api>>
    /\ UNCHANGED serveVars

StartAPI(tables, skip) ==
    /\ Quiet
    /\ api' = [state |-> runAPI(db, tables, skip), tables |-> tables, skip |-> skip]
    /\ UNCHANGED <<db, tx, mig>>
    /\ UNCHANGED serveVars

StopAPI ==
    /\ api.state # "down"
    /\ api' = ApiDown
    /\ UNCHANGED <<db, tx, mig>>
    /\ UNCHANGED serveVars

Next ==
    \/ \E tables \in Configs, opts \in MigrateOptions, fail \in BOOLEAN :
          MigrateBegin(tables, opts, fail)
    \/ \E fail \in BOOLEAN : MigrateCreateMetaTable(fail)
    \/ \E fail \in BOOLEAN : MigrateReconcileTable(fail)
    \/ \E fail \in BOOLEAN : MigrateCleanupTables(fail)
    \/ \E fail \in BOOLEAN : MigrateUpsertHash(fail)
    \/ \E fail \in BOOLEAN : MigrateFinish(fail)
    \/ MigrateExit
    \/ \E tables \in Configs, skip \in BOOLEAN : StartAPI(tables, skip)
    \/ StopAPI

Spec == Init /\ [][Next]_vars

------------------------------------------------------------------------------
(* Page sequences: a client of the list endpoints following nextCursor      *)
(* (the list handlers of internal/handler over internal/database/store.go)  *)

MaxRows == 3     \* rows in the served table

MaxLimit == 2    \* the limit parameter ranges over 0..MaxLimit

MaxCalls == 4    \* calls a client makes in one page sequence

\* The served table: "a", with or without a range key, with a pk-only index
\* "s" on status and a pk+rk index "k" on (status, kind).
PageTables ==
    { TableConfig(<<"a">>, "itemId", rk,
          << IndexConfig(<<"s">>, "status", Nil),
             IndexConfig(<<"k">>, "status", KeyConfig("kind")) >>) :
        rk \in {Nil, KeyConfig("tenantId")} }

\* The (pk, rk) values of its rows.
RowKeys(t) ==
    IF t.RangeKey = Nil
    THEN {<<"a">>, <<"a", "b">>, <<"b">>} \X {Null}
    ELSE {<<"a">>, <<"b">>} \X {<<"a">>, <<"a", "b">>}

\* Payloads: status and kind, each present or not.
Payloads ==
    { p \in UNION { [D -> {JStr(<<"a">>), JStr(<<"b">>)}] : D \in SUBSET {"status", "kind"} } :
        "kind" \in DOMAIN p => p["kind"] = JStr(<<"a">>) }

\* The contents the table may have: at most MaxRows rows, one per key.
RowSets(t) ==
    UNION { { { [pk |-> k[1], rk |-> k[2], data |-> f[k]] : k \in K } : f \in [K -> Payloads] } :
            K \in { K \in SUBSET RowKeys(t) : Cardinality(K) <= MaxRows } }

\* The database after `migrate` of <<t>> on an empty database, holding rows.
Stored(t, rows) ==
    LET opts == [Cleanup |-> FALSE, DryRun |-> FALSE]
        d == upsertTablesConfigHash(
                 reconcileTable(createMetaTable(EmptyDB), t, opts).d, <<t>>, FALSE)
    IN  [d EXCEPT !.tables[t.Name].rows = rows]

\* ValidateKeyValue: not empty (every character of the model's values is a
\* letter).
ValidateKeyValue(value) == value # <<>>

InitPage ==
    /\ \E t \in PageTables : \E rows \in RowSets(t) :
          /\ db = Stored(t, rows)
          /\ api = [state |-> runAPI(db, <<t>>, FALSE), tables |-> <<t>>, skip |-> FALSE]
    /\ tx = Nil
    /\ mig = MigIdle
    /\ page = PageIdle
    /\ reqs = [s \in Slots |-> SlotIdle]
    /\ hist = HistEmpty

\* The cursor parameter of a first call: none, or text that does not decode.
ClientCursors == { <<>>, << [garbage |-> TRUE] >> }

\* The client begins a page sequence: an endpoint, its path values and its
\* limit, rkGt and cursor parameters.
PageOpen(op, index, pk, limit, rkGt, cursor) ==
    /\ api.state = "serving"
    /\ page = PageIdle
    /\ CASE op = "scanTable"  -> index = 0 /\ pk = <<>> /\ rkGt = <<>>
         [] op = "listItems"  -> index = 0 /\ pk # <<>>
         [] op = "queryIndex" -> index \in 1..Len(api.tables[1].Indexes) /\ pk # <<>>
         [] op = "scanIndex"  -> index \in 1..Len(api.tables[1].Indexes)
                                 /\ pk = <<>> /\ rkGt = <<>>
    /\ page' = [PageIdle EXCEPT !.op = op, !.index = index, !.pk = pk,
                                !.opts = ListOptions(limit, cursor, rkGt),
                                !.since = hist.n]
    /\ UNCHANGED <<db, tx, mig, api, reqs, hist>>

\* The client reads a page and keeps its nextCursor for the next call; a
\* page without one ends the sequence.
Follow(result) ==
    [page EXCEPT !.items = @ \o result.Items,
                 !.calls = @ + 1,
                 !.sent = page.opts.Cursor,
                 !.at = hist.n,
                 !.opts.Cursor = result.NextCursor,
                 !.done = (result.NextCursor = <<>>)]

Calling(op) ==
    /\ api.state = "serving"
    /\ page.op = op
    /\ ~page.done
    /\ page.calls < MaxCalls

\* GET /v1/{table}/data/{pk}/_items
handleListItems ==
    /\ Calling("listItems")
    /\ ValidateKeyValue(page.pk)
    /\ LET th == api.tables[1] IN
       \E result \in ListItems(db, th.Name, page.pk, th.RangeKey # Nil, page.opts) :
          page' = Follow(result)
    /\ UNCHANGED <<db, tx, mig, api, reqs, hist>>

\* GET /v1/{table}/_items
handleScanTable ==
    /\ Calling("scanTable")
    /\ api.tables[1].AllowTableScan
    /\ LET th == api.tables[1] IN
       \E result \in ScanTable(db, th.Name, th.RangeKey # Nil, page.opts) :
          page' = Follow(result)
    /\ UNCHANGED <<db, tx, mig, api, reqs, hist>>

\* GET /v1/{table}/_index/{indexName}/{indexPk}/_items
handleQueryIndex ==
    /\ Calling("queryIndex")
    /\ ValidateKeyValue(page.pk)
    /\ LET th == api.tables[1]
           iqc == IndexQueryConfig(th.Indexes[page.index])
       IN  \E result \in QueryIndex(db, th.Name, iqc, page.pk, page.opts) :
              page' = Follow(result)
    /\ UNCHANGED <<db, tx, mig, api, reqs, hist>>

\* GET /v1/{table}/_index/{indexName}/_items
handleScanIndex ==
    /\ Calling("scanIndex")
    /\ api.tables[1].Indexes[page.index].AllowIndexScan
    /\ LET th == api.tables[1]
           iqc == IndexQueryConfig(th.Indexes[page.index])
       IN  \E result \in ScanIndex(db, th.Name, iqc, page.opts) :
              page' = Follow(result)
    /\ UNCHANGED <<db, tx, mig, api, reqs, hist>>

\* The client is done with the sequence, or gives it up.
PageClose ==
    /\ page.op # "none"
    /\ page.done \/ page.calls = MaxCalls
    /\ page' = PageIdle
    /\ UNCHANGED <<db, tx, mig, api, reqs, hist>>

NextPage ==
    \/ \E op \in {"listItems", "scanTable", "queryIndex", "scanIndex"},
          index \in 0..2, pk \in {<<>>, <<"a">>, <<"b">>},
          limit \in 0..MaxLimit, rkGt \in {<<>>, <<"a">>}, cursor \in ClientCursors :
          PageOpen(op, index, pk, limit, rkGt, cursor)
    \/ handleListItems
    \/ handleScanTable
    \/ handleQueryIndex
    \/ handleScanIndex
    \/ PageClose

SpecPage == InitPage /\ [][NextPage]_vars

------------------------------------------------------------------------------
(* Single-item requests: internal/handler/item.go *)

MaxRequests == 4    \* requests the clients send in one run

\* The path values of the requests.
ItemPKs == {<<"a">>}

ItemRKs == {<<"a">>}

\* Payloads of the documents clients send: status and meta.note, each
\* present or not.
ItemPayloads ==
    { MergePatch(s, m) :
        s \in {EmptyFn, [status |-> JStr(<<"a">>)], [status |-> JStr(<<"b">>)]},
        m \in {EmptyFn, [meta |-> JObj([note |-> JStr(<<"a">>)])]} }

\* PUT bodies for the path key: the payloads with the key fields, one
\* without them, one naming another pk, one naming another rk, one with an
\* undeclared field.
PutBodies(th, pk, rk) ==
    LET rkf == IF th.RangeKey # Nil THEN th.RangeKey.Field ELSE "" IN
    { InjectKeys(p, th.PrimaryKey.Field, pk, rkf, rk) : p \in ItemPayloads }
    \cup { [status |-> JStr(<<"a">>)],
           InjectKeys(EmptyFn, th.PrimaryKey.Field, <<"b">>, rkf, rk),
           InjectKeys(EmptyFn, th.PrimaryKey.Field, pk, rkf, <<"b">>),
           InjectKeys([extra |-> JStr(<<"a">>)], th.PrimaryKey.Field, pk, rkf, rk) }

\* PATCH bodies: set, replace and remove status; set and remove meta;
\* remove meta.note; name another pk or another rk; add an undeclared field.
PatchBodies(th) ==
    { [status |-> JStr(<<"a">>)], [status |-> JStr(<<"b">>)], [status |-> JNull],
      [meta |-> JObj([note |-> JStr(<<"a">>)])], [meta |-> JNull],
      [meta |-> JObj([note |-> JNull])],
      (th.PrimaryKey.Field :> JStr(<<"b">>)),
      [extra |-> JStr(<<"a">>)] }
    \cup (IF th.RangeKey # Nil THEN { (th.RangeKey.Field :> JStr(<<"b">>)) } ELSE {})

\* The bodies over the tables the server may serve.
AllPutBodies ==
    UNION { PutBodies(t, pk, rk) : <<t, pk, rk>> \in PageTables \X ItemPKs \X ItemRKs }

AllPatchBodies == UNION { PatchBodies(t) : t \in PageTables }

\* The range key of the path: nil pointer, empty field and value for a
\* table without a range key.
rkPtrOf(th, rk) == IF th.RangeKey # Nil THEN rk ELSE Null

rkFieldOf(th) == IF th.RangeKey # Nil THEN th.RangeKey.Field ELSE ""

rkValueOf(th, rk) == IF th.RangeKey # Nil THEN rk ELSE <<>>

InitItem ==
    /\ \E t \in PageTables :
          /\ db = Stored(t, {})
          /\ api = [state |-> runAPI(db, <<t>>, FALSE), tables |-> <<t>>, skip |-> FALSE]
    /\ tx = Nil
    /\ mig = MigIdle
    /\ page = PageIdle
    /\ reqs = [s \in Slots |-> SlotIdle]
    /\ hist = HistEmpty

Answer(op, pk, rk, status, resp) ==
    [hist EXCEPT !.op = op, !.key = <<pk, rk>>, !.status = status, !.resp = resp,
                 !.body = EmptyFn]

\* The server is up and the clients have a request left to send.
Receiving == api.state = "serving" /\ hist.n < MaxRequests

Received(h) == [h EXCEPT !.n = @ + 1]

\* GET: 404 for an absent item, else the payload with the keys injected.
handleGetItem(pk, rk) ==
    /\ Receiving
    /\ ValidateKeyValue(pk)
    /\ LET th == api.tables[1]
           got == GetItem(db, th.Name, pk, rkPtrOf(th, rk))
       IN  hist' = Received(
                   IF ~got.found
                   THEN Answer("get", pk, rkPtrOf(th, rk), 404, EmptyFn)
                   ELSE Answer("get", pk, rkPtrOf(th, rk), 200,
                               InjectKeys(got.data, th.PrimaryKey.Field, pk,
                                          rkFieldOf(th), rkValueOf(th, rk))))
    /\ UNCHANGED <<db, tx, mig, api, page, reqs>>

\* PUT: 400 when a key field of the body differs from the path or the
\* document fails validation; else the stripped document replaces the row.
handlePutItem(pk, rk, doc) ==
    /\ Receiving
    /\ doc \in PutBodies(api.tables[1], pk, rk)
    /\ ValidateKeyValue(pk)
    /\ LET th == api.tables[1]
           stripped == StripKeys(doc, th.PrimaryKey.Field, rkFieldOf(th))
           out == validateAndPut(db, th, pk, rkPtrOf(th, rk), doc)
       IN  IF \/ ~BodyKeyMatches(doc, th.PrimaryKey.Field, pk)
              \/ th.RangeKey # Nil /\ ~BodyKeyMatches(doc, th.RangeKey.Field, rkValueOf(th, rk))
           THEN /\ hist' = [Answer("put", pk, rkPtrOf(th, rk), 400, EmptyFn)
                            EXCEPT !.n = @ + 1, !.body = doc]
                /\ UNCHANGED db
           ELSE IF out.status # 200
           THEN /\ db' = out.db
                /\ hist' = [Answer("put", pk, rkPtrOf(th, rk), out.status, EmptyFn)
                            EXCEPT !.n = @ + 1, !.body = doc]
           ELSE /\ db' = out.db
                /\ hist' = [Answer("put", pk, rkPtrOf(th, rk), 200,
                                   InjectKeys(stripped, th.PrimaryKey.Field, pk,
                                              rkFieldOf(th), rkValueOf(th, rk)))
                            EXCEPT !.n = @ + 1, !.writer = 0, !.body = doc,
                                   !.put = Upsert(@, <<pk, rkPtrOf(th, rk)>>,
                                       [doc |-> doc,
                                        before |-> GetItem(db, th.Name, pk, rkPtrOf(th, rk))])]
    /\ UNCHANGED <<tx, mig, api, page, reqs>>

\* DELETE: 204 whether or not the item existed.
handleDeleteItem(pk, rk) ==
    /\ Receiving
    /\ ValidateKeyValue(pk)
    /\ LET th == api.tables[1] IN
       /\ db' = DeleteItem(db, th.Name, pk, rkPtrOf(th, rk))
       /\ hist' = [Answer("delete", pk, rkPtrOf(th, rk), 204, EmptyFn)
                   EXCEPT !.n = @ + 1, !.writer = 0, !.put = Remove(@, <<pk, rkPtrOf(th, rk)>>)]
    /\ UNCHANGED <<tx, mig, api, page, reqs>>

\* PATCH, up to its read: 400 when a key field of the patch differs from
\* the path, 404 for an absent item; else the request holds what it read.
handlePatchItemRead(s, pk, rk, patch) ==
    /\ Receiving
    /\ patch \in PatchBodies(api.tables[1])
    /\ reqs[s].pc = "idle"
    /\ ValidateKeyValue(pk)
    /\ LET th == api.tables[1]
           got == GetItem(db, th.Name, pk, rkPtrOf(th, rk))
           req == [SlotIdle EXCEPT !.pk = pk, !.rk = rk, !.patch = patch]
       IN  IF \/ ~BodyKeyMatches(patch, th.PrimaryKey.Field, pk)
              \/ th.RangeKey # Nil /\ ~BodyKeyMatches(patch, th.RangeKey.Field, rkValueOf(th, rk))
           THEN /\ reqs' = [reqs EXCEPT ![s] = [req EXCEPT !.pc = "done", !.status = 400]]
                /\ hist' = Received(Answer("patch", pk, rkPtrOf(th, rk), 400, EmptyFn))
           ELSE IF ~got.found
           THEN /\ reqs' = [reqs EXCEPT ![s] = [req EXCEPT !.pc = "done", !.status = 404]]
                /\ hist' = Received(Answer("patch", pk, rkPtrOf(th, rk), 404, EmptyFn))
           ELSE /\ reqs' = [reqs EXCEPT ![s] = [req EXCEPT !.pc = "read", !.found = TRUE,
                                                          !.existing = got.data]]
                /\ hist' = Received(hist)
    /\ UNCHANGED <<db, tx, mig, api, page>>

\* The merged document of a PATCH that has read, with the keys injected.
mergedWithKeys(th, req) ==
    InjectKeys(MergePatch(req.existing, req.patch), th.PrimaryKey.Field, req.pk,
               rkFieldOf(th), rkValueOf(th, req.rk))

\* PATCH, from its merge on: 400 when the merged document fails
\* validation; else the stripped merged document replaces the row.
handlePatchItemWrite(s) ==
    /\ api.state = "serving"
    /\ reqs[s].pc = "read"
    /\ LET th == api.tables[1]
           req == reqs[s]
           merged == mergedWithKeys(th, req)
           out == validateAndPut(db, th, req.pk, rkPtrOf(th, req.rk), merged)
       IN  IF out.status # 200
           THEN /\ reqs' = [reqs EXCEPT ![s].pc = "done", ![s].status = out.status]
                /\ hist' = Answer("patch", req.pk, rkPtrOf(th, req.rk), out.status, EmptyFn)
                /\ db' = out.db
           ELSE /\ db' = out.db
                /\ reqs' = [reqs EXCEPT ![s].pc = "done", ![s].status = 200,
                                        ![s].over = hist.writer]
                /\ hist' = [Answer("patch", req.pk, rkPtrOf(th, req.rk), 200, merged)
                            EXCEPT !.writer = s,
                                   !.put = Remove(@, <<req.pk, rkPtrOf(th, req.rk)>>)]
    /\ UNCHANGED <<tx, mig, api, page>>

\* The client has the PATCH's answer; the slot is free again.
PatchReply(s) ==
    /\ reqs[s].pc = "done"
    /\ reqs' = [reqs EXCEPT ![s] = SlotIdle]
    /\ hist' = [hist EXCEPT !.writer = IF @ = s THEN 0 ELSE @]
    /\ UNCHANGED <<db, tx, mig, api, page>>

NextItem ==
    \/ \E pk \in ItemPKs, rk \in ItemRKs : handleGetItem(pk, rk)
    \/ \E pk \in ItemPKs, rk \in ItemRKs, doc \in AllPutBodies :
          handlePutItem(pk, rk, doc)
    \/ \E pk \in ItemPKs, rk \in ItemRKs : handleDeleteItem(pk, rk)
    \/ \E s \in Slots, pk \in ItemPKs, rk \in ItemRKs, patch \in AllPatchBodies :
          handlePatchItemRead(s, pk, rk, patch)
    \/ \E s \in Slots : handlePatchItemWrite(s)
    \/ \E s \in Slots : PatchReply(s)

SpecItem == InitItem /\ [][NextItem]_vars

------------------------------------------------------------------------------
(* The fingerprint across configurations: `migrate` with one configuration, *)
(* `api` with another                                                       *)

\* What a configuration says besides its structure: the key patterns, the
\* scan flags, the document schema and the index projection.
Attributes ==
    { [pattern |-> "^.*$", scan |-> TRUE, schema |-> "closed", projection |-> "ALL"],
      [pattern |-> "^[a-z]+$", scan |-> TRUE, schema |-> "closed", projection |-> "ALL"],
      [pattern |-> "^.*$", scan |-> FALSE, schema |-> "closed", projection |-> "ALL"],
      [pattern |-> "^.*$", scan |-> TRUE, schema |-> "named", projection |-> "ALL"],
      [pattern |-> "^.*$", scan |-> TRUE, schema |-> "closed", projection |-> "KEYS_ONLY"],
      [pattern |-> "^[a-z]+$", scan |-> FALSE, schema |-> "named", projection |-> "KEYS_ONLY"] }

WithKeyAttributes(k, a) == IF k = Nil THEN Nil ELSE [Field |-> k.Field, Pattern |-> a.pattern]

\* The tables with the attributes a on every table, key and index.
WithAttributes(tables, a) ==
    [i \in 1..Len(tables) |->
        LET t == tables[i] IN
        [Name |-> t.Name,
         PrimaryKey |-> WithKeyAttributes(t.PrimaryKey, a),
         RangeKey |-> WithKeyAttributes(t.RangeKey, a),
         AllowTableScan |-> a.scan,
         Schema |-> a.schema,
         Indexes |-> [m \in 1..Len(t.Indexes) |->
                        [Name |-> t.Indexes[m].Name,
                         PrimaryKey |-> WithKeyAttributes(t.Indexes[m].PrimaryKey, a),
                         RangeKey |-> WithKeyAttributes(t.Indexes[m].RangeKey, a),
                         Projection |-> a.projection,
                         AllowIndexScan |-> a.scan]]]]

\* Index lists of table "a": none, one index under two names, with another
\* field, with a range key; two indexes in both orders.
HashIndexChoices ==
    { <<>>,
      << IndexConfig(<<"s">>, "status", Nil) >>,
      << IndexConfig(<<"t">>, "status", Nil) >>,
      << IndexConfig(<<"s">>, "kind", Nil) >>,
      << IndexConfig(<<"s">>, "status", KeyConfig("kind")) >>,
      << IndexConfig(<<"s">>, "status", KeyConfig("owner")) >>,
      << IndexConfig(<<"s">>, "status", Nil), IndexConfig(<<"k">>, "status", KeyConfig("kind")) >>,
      << IndexConfig(<<"k">>, "status", KeyConfig("kind")), IndexConfig(<<"s">>, "status", Nil) >> }

HashTableChoices ==
    { TableConfig(<<"a">>, "itemId", rk, ix) :
        <<rk, ix>> \in {Nil, KeyConfig("tenantId"), KeyConfig("owner")} \X HashIndexChoices }
    \cup { TableConfig(<<"a">>, "id", Nil, <<>>),
           TableConfig(<<"a">>, "id", Nil, << IndexConfig(<<"s">>, "status", Nil) >>) }

\* The configurations: table "a" alone, or with table "b" or "c" before or
\* after it, under every choice of attributes.
HashConfigs ==
    LET b == TableConfig(<<"b">>, "orderId", Nil, <<>>)
        c == TableConfig(<<"c">>, "orderId", Nil, <<>>)
        a1 == { t \in HashTableChoices : t.PrimaryKey.Field = "itemId" /\ t.RangeKey = Nil }
        structures == { <<t>> : t \in HashTableChoices }
                      \cup { <<t, b>> : t \in a1 } \cup { <<b, t>> : t \in a1 }
                      \cup { <<t, c>> : t \in a1 }
    IN  { WithAttributes(s, a) : <<s, a>> \in { s \in structures : Validate(s) } \X Attributes }

RECURSIVE reconcileTables(_, _, _, _)
reconcileTables(d, tables, opts, i) ==
    IF i > Len(tables) THEN d
    ELSE reconcileTables(reconcileTable(d, tables[i], opts).d, tables, opts, i + 1)

\* The database after `migrate` of the tables on an empty database.
Migrated(tables) ==
    LET opts == [Cleanup |-> FALSE, DryRun |-> FALSE] IN
    upsertTablesConfigHash(
        reconcileTables(createMetaTable(EmptyDB), tables, opts, 1), tables, FALSE)

InitHash ==
    /\ \E tables \in HashConfigs : db = Migrated(tables)
    /\ tx = Nil
    /\ mig = MigIdle
    /\ api = ApiDown
    /\ page = PageIdle
    /\ reqs = [s \in Slots |-> SlotIdle]
    /\ hist = HistEmpty

NextHash ==
    \/ \E tables \in HashConfigs : StartAPI(tables, FALSE)
    \/ StopAPI

SpecHash == InitHash /\ [][NextHash]_vars

------------------------------------------------------------------------------
(* Page sequences while items are written: the list handlers of a table    *)
(* scan or a partition listing, interleaved with PUT and DELETE             *)

\* The keys the writers write while pages are read.
LiveKeys == { <<(<<"a">>), (<<"a", "b">>)>>, <<(<<"a", "b">>), (<<"a", "b">>)>> }

\* The documents they put: status "b" under the path's key.
LiveBodies ==
    { InjectKeys([status |-> JStr(<<"b">>)], t.PrimaryKey.Field, k[1], rkFieldOf(t), k[2]) :
        t \in PageTables, k \in LiveKeys }

\* The contents the table starts with: at most MaxRows rows, status "a".
LiveRowSets(t) ==
    { { [pk |-> k[1], rk |-> k[2], data |-> [status |-> JStr(<<"a">>)]] : k \in K } :
        K \in { K \in SUBSET RowKeys(t) : Cardinality(K) <= MaxRows } }

InitLive ==
    /\ \E t \in PageTables : \E rows \in LiveRowSets(t) :
          /\ db = Stored(t, rows)
          /\ api = [state |-> runAPI(db, <<t>>, FALSE), tables |-> <<t>>, skip |-> FALSE]
    /\ tx = Nil
    /\ mig = MigIdle
    /\ page = PageIdle
    /\ reqs = [s \in Slots |-> SlotIdle]
    /\ hist = HistEmpty

NextLive ==
    \/ \E op \in {"listItems", "scanTable"}, pk \in {<<>>, <<"a">>, <<"b">>},
          limit \in 1..MaxLimit :
          PageOpen(op, 0, pk, limit, <<>>, <<>>)
    \/ handleListItems
    \/ handleScanTable
    \/ PageClose
    \/ \E k \in LiveKeys, doc \in LiveBodies : handlePutItem(k[1], k[2], doc)
    \/ \E k \in LiveKeys : handleDeleteItem(k[1], k[2])

SpecLive == InitLive /\ [][NextLive]_vars

------------------------------------------------------------------------------
(* The serving process from its start: runAPI of main.go, then the item     *)
(* handlers                                                                 *)

\* createIndexes of the two-argument Migrate: CREATE INDEX IF NOT EXISTS for
\* every index of the table, from index m on.
RECURSIVE createIndexes(_, _, _)
createIndexes(d, t, m) ==
    IF m > Len(t.Indexes) THEN Ok(d)
    ELSE LET r == createIndex(d, t, t.Indexes[m])
         IN  IF r.ok THEN createIndexes(r.d, t, m + 1) ELSE r

\* Migrate(db, tables), the two-argument function that runAPI of main.go
\* calls: createTable and createIndexes for every table in one transaction,
\* committed when all succeed; _meta is not touched.
RECURSIVE MigrateAtStartup(_, _, _)
MigrateAtStartup(d, tables, i) ==
    IF i > Len(tables) THEN Ok(d)
    ELSE LET r == createIndexes(createTable(d, tables[i]), tables[i], 1)
         IN  IF r.ok THEN MigrateAtStartup(r.d, tables, i + 1) ELSE r

\* The key layout of every configured table is the layout of the table in
\* the database.
LayoutMatches(d, tables) ==
    \A i \in 1..Len(tables) :
        /\ tables[i].Name \in DOMAIN d.tables
        /\ d.tables[tables[i].Name].hasRK = (tables[i].RangeKey # Nil)

\* `api` as runAPI of main.go starts it: connect, Migrate(db, cfg.Tables),
\* fatal on its error, else serve.
StartAPIMain(tables) ==
    /\ Quiet
    /\ LayoutMatches(db, tables)
    /\ LET r == MigrateAtStartup(db, tables, 1) IN
       /\ db' = IF r.ok THEN r.d ELSE db
       /\ api' = [state |-> IF r.ok THEN "serving" ELSE "fatal",
                  tables |-> tables, skip |-> FALSE]
    /\ UNCHANGED <<tx, mig>>
    /\ UNCHANGED serveVars

\* `api` as the runAPI with the start-up check starts it, for a database
\* whose tables have the configured key layout.
StartAPIChecked(tables) ==
    /\ LayoutMatches(db, tables)
    /\ StartAPI(tables, FALSE)

\* The databases the server finds: `migrate` has run for the served table,
\* with its indexes or before they were declared.
ServeDBs ==
    { Stored(t, {}) : t \in PageTables }
    \cup { Stored([t EXCEPT !.Indexes = <<>>], {}) : t \in PageTables }

InitServe ==
    /\ db \in ServeDBs
    /\ tx = Nil
    /\ mig = MigIdle
    /\ api = ApiDown
    /\ page = PageIdle
    /\ reqs = [s \in Slots |-> SlotIdle]
    /\ hist = HistEmpty

NextServe ==
    \/ \E t \in PageTables : StartAPIChecked(<<t>>)
    \/ \E t \in PageTables : StartAPIMain(<<t>>)
    \/ NextItem

SpecServe == InitServe /\ [][NextServe]_vars

------------------------------------------------------------------------------
(* Reconciliation and start-up properties *)

\* A migrate run has ended and the process has not exited yet.
Finished == mig.pc = "idle" /\ mig.result \in {"ok", "error"}

\* The persisted fingerprint, <<>> when there is none (no _meta table, no
\* row, or an empty value).
PersistedHash(d) ==
    IF d.metaExists /\ metaConfigHashRowName \in DOMAIN d.meta
    THEN d.meta[metaConfigHashRowName].configHash
    ELSE <<>>

\* Some configured table is recorded in d with other key field names.
KeyFieldChanged(d, tables) ==
    \E i \in 1..Len(tables) :
        /\ tables[i].Name \in DOMAIN d.meta
        /\ \/ d.meta[tables[i].Name].primaryKeyField # tables[i].PrimaryKey.Field
           \/ d.meta[tables[i].Name].rangeKeyField #
                 (IF tables[i].RangeKey = Nil THEN "" ELSE tables[i].RangeKey.Field)

\* C2: a run, in any mode, whose configuration names other key fields for a
\* recorded table fails, and tables, indexes, metadata and fingerprint are as
\* the run found them.
C2_KeyImmutability ==
    (Finished /\ KeyFieldChanged(mig.snapshot, mig.tables))
        => (mig.result = "error" /\ db = mig.snapshot)

\* A run that created table "b" in its transaction and then failed on the
\* changed range key of the recorded table "a".
C2_Witness ==
    /\ Finished
    /\ mig.err = "rangeKey field changed"
    /\ ~mig.opts.DryRun
    /\ mig.i = 2
    /\ mig.tables[1].Name \notin DOMAIN mig.snapshot.meta
    /\ db = mig.snapshot

\* C5: a run that fails at any step leaves no structural and no metadata
\* change behind.
C5_FailureLeavesNothing ==
    (Finished /\ mig.result = "error") => db = mig.snapshot

\* A cleanup run on a fresh database that failed writing the fingerprint,
\* after it had created _meta, a table and its metadata in the transaction.
C5_Witness ==
    /\ Finished
    /\ mig.err = "store config hash: storage error"
    /\ ~mig.opts.DryRun
    /\ mig.opts.Cleanup
    /\ ~mig.snapshot.metaExists
    /\ Len(mig.tables[1].Indexes) > 0

\* C6: a dry run, failed or not, with or without cleanup, leaves tables,
\* indexes, metadata and fingerprint as it found them.
C6_DryRunLeavesNothing ==
    (Finished /\ mig.opts.DryRun) => db = mig.snapshot

\* A successful dry run with cleanup on a database without _meta (which the
\* run creates inside its transaction).
C6_Witness ==
    /\ Finished
    /\ mig.opts.DryRun
    /\ mig.opts.Cleanup
    /\ mig.result = "ok"
    /\ ~mig.snapshot.metaExists
    /\ ~db.metaExists

C8_HashFollowsCommit ==
    (Finished /\ mig.result = "ok" /\ ~mig.opts.DryRun)
        => PersistedHash(db) = TablesConfigHash(mig.tables)

\* A committed cleanup run that overwrote another configuration's fingerprint.
C8_Witness ==
    /\ Finished
    /\ mig.result = "ok"
    /\ ~mig.opts.DryRun
    /\ mig.opts.Cleanup
    /\ PersistedHash(mig.snapshot) # <<>>
    /\ PersistedHash(mig.snapshot) # TablesConfigHash(mig.tables)
    /\ PersistedHash(db) = TablesConfigHash(mig.tables)

------------------------------------------------------------------------------
(* Pagination and index properties *)

Served == api.tables[1]

TableRows == db.tables[Served.Name].rows

ItemSet == { page.items[i] : i \in 1..Len(page.items) }

NoDuplicates == \A i, j \in 1..Len(page.items) : page.items[i] = page.items[j] => i = j

\* The page size in force, and the pages n rows take at that size.
PageSize == IF page.opts.Limit <= 0 THEN DefaultLimit ELSE page.opts.Limit

PagesFor(n) == IF n = 0 THEN 1 ELSE (n + PageSize - 1) \div PageSize

\* The rows a partition listing or a table scan is asked for.
TableMatches ==
    { rowData(r) : r \in
        { r \in TableRows :
            page.op = "listItems" =>
                /\ r.pk = page.pk
                /\ (Served.RangeKey # Nil /\ page.opts.RKGt # <<>>)
                      => StrLess(page.opts.RKGt, r.rk) } }

\* C1: for a fixed snapshot, following the cursor of scanTable or
\* listByPartition collects exactly the matching rows, none twice, none
\* missing, and the sequence ends with a page without a cursor after the
\* number of pages the rows take.
C1_PaginationCompleteness ==
    page.op \in {"scanTable", "listItems"} =>
        /\ NoDuplicates
        /\ ItemSet \subseteq TableMatches
        /\ page.done => ItemSet = TableMatches
        /\ page.calls <= PagesFor(Cardinality(TableMatches))
        /\ page.calls = PagesFor(Cardinality(TableMatches)) => page.done

C1_Witness ==
    /\ page.op = "scanTable"
    /\ Served.RangeKey # Nil
    /\ page.opts.Limit = 1
    /\ page.done
    /\ page.calls = 3
    /\ Len(page.items) = 3
    /\ page.items[1].pk = page.items[2].pk
    /\ page.items[2].pk # page.items[3].pk

\* The key fields of the index a sequence reads.
IndexKeyFields ==
    LET idx == Served.Indexes[page.index] IN
    {idx.PrimaryKey.Field} \cup
        (IF idx.RangeKey # Nil THEN {idx.RangeKey.Field} ELSE {})

\* C3: a row is returned by an index query or an index scan only if every
\* key field of the index is present in its payload.
C3_IndexSparsity ==
    page.op \in {"queryIndex", "scanIndex"} =>
        \A i \in 1..Len(page.items) : IndexKeyFields \subseteq DOMAIN page.items[i].data

\* The rows visible through the index that the sequence is asked for.
IndexMatches ==
    LET idx == Served.Indexes[page.index] IN
    { rowData(r) : r \in
        { r \in TableRows :
            /\ IndexKeyFields \subseteq DOMAIN r.data
            /\ page.op = "queryIndex" =>
                /\ r.data[idx.PrimaryKey.Field] = JStr(page.pk)
                /\ (idx.RangeKey # Nil /\ page.opts.RKGt # <<>>)
                      => StrLess(page.opts.RKGt, r.data[idx.RangeKey.Field].v) } }

\* C4: for a fixed snapshot, following the cursor of queryIndex or scanIndex
\* returns every row visible through the index exactly once and ends with a
\* page without a cursor, also when rows share their index key values.
C4_IndexPaginationCompleteness ==
    page.op \in {"queryIndex", "scanIndex"} =>
        /\ NoDuplicates
        /\ page.done => IndexMatches \subseteq ItemSet
        /\ page.calls >= PagesFor(Cardinality(TableRows)) => page.done

------------------------------------------------------------------------------
(* Write-path properties *)

\* The payload stored under a slot's key.
StoredFor(s) == GetItem(db, Served.Name, reqs[s].pk, rkPtrOf(Served, reqs[s].rk))

\* C9: a get that follows a put of document D to the same key, with no
\* write in between, answers exactly D with the key fields injected,
\* whatever the key held before the put: the put replaces, it does not merge.
C9_PutGetRoundTrip ==
    (hist.op = "get" /\ hist.key \in DOMAIN hist.put) =>
        /\ hist.status = 200
        /\ hist.resp = InjectKeys(hist.put[hist.key].doc, Served.PrimaryKey.Field,
                                  hist.key[1], rkFieldOf(Served),
                                  IF Served.RangeKey # Nil THEN hist.key[2] ELSE <<>>)

C9_Witness ==
    /\ hist.op = "get"
    /\ hist.key \in DOMAIN hist.put
    /\ Served.RangeKey # Nil
    /\ hist.put[hist.key].before.found
    /\ "status" \in DOMAIN hist.put[hist.key].before.data
    /\ "status" \notin DOMAIN hist.put[hist.key].doc
    /\ "meta" \in DOMAIN hist.put[hist.key].doc
    /\ DOMAIN hist.resp = {"itemId", "tenantId", "meta"}

\* C10: a PATCH that found its item is answered by its own merge alone
\* (200, or 400 when the merged document is invalid), never rejected for
\* what another request wrote meanwhile; and while its write is the last
\* one, the stored document is its patch merged onto the document it read.
C10_PatchRace ==
    \A s \in Slots :
        (reqs[s].pc = "done" /\ reqs[s].found) =>
            /\ reqs[s].status = IF SchemaValidate(Served, mergedWithKeys(Served, reqs[s]))
                                THEN 200 ELSE 400
            /\ hist.writer = s =>
                  StoredFor(s) = [found |-> TRUE,
                                  data |-> StripKeys(mergedWithKeys(Served, reqs[s]),
                                                     Served.PrimaryKey.Field, rkFieldOf(Served))]

\* Both PATCHes read the same document; slot 1 wrote first, slot 2 wrote
\* over it: slot 1's change is lost.
C10_Witness ==
    /\ reqs[1].pc = "done" /\ reqs[1].status = 200
    /\ reqs[2].pc = "done" /\ reqs[2].status = 200
    /\ reqs[1].existing = reqs[2].existing
    /\ "status" \notin DOMAIN reqs[1].existing
    /\ reqs[1].patch = [status |-> JStr(<<"b">>)]
    /\ reqs[2].patch = [meta |-> JObj([note |-> JStr(<<"a">>)])]
    /\ reqs[2].over = 1
    /\ hist.writer = 2
    /\ "status" \notin DOMAIN StoredFor(2).data

\* The rows of the served table.
ItemRows == db.tables[Served.Name].rows

\* Slot s passes from its read to its answer in this step.
PatchWrites(s) == reqs[s].pc = "read" /\ reqs'[s].pc = "done"

\* Slot s receives a PATCH in this step.
PatchArrives(s) == reqs[s].pc = "idle" /\ reqs'[s].pc # "idle"

\* A PUT is received and answered in this step.
PutArrives == hist'.op = "put" /\ hist'.n = hist.n + 1

\* C11: a PUT whose document, or a PATCH whose merged document, fails schema
\* validation is answered 400 and the step writes nothing: the database is
\* as it was.
C11_ValidationFailureWritesNothing ==
    [][ /\ (PutArrives /\ ~SchemaValidate(Served, hist'.body)) =>
              (hist'.status = 400 /\ db' = db)
        /\ \A s \in Slots :
              (PatchWrites(s) /\ ~SchemaValidate(Served, mergedWithKeys(Served, reqs[s]))) =>
                  (reqs'[s].status = 400 /\ hist'.status = 400 /\ db' = db) ]_vars

\* A PATCH that adds an undeclared field to a stored item was answered 400
\* and the item is still the document it read.
C11_Witness ==
    \E s \in Slots :
        /\ reqs[s].pc = "done" /\ reqs[s].found /\ reqs[s].status = 400
        /\ reqs[s].patch = [extra |-> JStr(<<"a">>)]
        /\ hist.op = "patch" /\ hist.status = 400
        /\ StoredFor(s) = [found |-> TRUE, data |-> reqs[s].existing]

RECURSIVE FollowsMergePatch(_, _, _)
FollowsMergePatch(target, patch, r) ==
    /\ DOMAIN r \subseteq DOMAIN target \cup DOMAIN patch
    /\ \A k \in DOMAIN target \ DOMAIN patch : k \in DOMAIN r /\ r[k] = target[k]
    /\ \A k \in DOMAIN patch :
          IF patch[k].t = "null" THEN k \notin DOMAIN r
          ELSE IF patch[k].t = "object"
          THEN /\ k \in DOMAIN r
               /\ r[k].t = "object"
               /\ FollowsMergePatch(
                      IF k \in DOMAIN target /\ target[k].t = "object"
                      THEN target[k].v ELSE EmptyFn,
                      patch[k].v, r[k].v)
          ELSE k \in DOMAIN r /\ r[k] = patch[k]

\* C13: the document a PATCH merges from what it read follows the
\* merge-patch rules at every level: a null of the patch leaves no key at
\* that level, an object merges into the object at its key, any other value
\* replaces, and keys the patch does not name are kept.
C13_MergePatchRules ==
    \A s \in Slots :
        reqs[s].pc = "read" =>
            FollowsMergePatch(reqs[s].existing, reqs[s].patch,
                              MergePatch(reqs[s].existing, reqs[s].patch))

\* C14: the served table holds at most one row per pk, or per (pk, rk) when
\* it has a range key.
C14_KeyUniqueness ==
    \A r1, r2 \in ItemRows :
        (r1.pk = r2.pk /\ (Served.RangeKey # Nil => r1.rk = r2.rk)) => r1 = r2

\* Two PATCHes read the same item and both wrote, the second over the
\* first: the table holds one row.
C14_Witness ==
    /\ reqs[1].pc = "done" /\ reqs[1].status = 200
    /\ reqs[2].pc = "done" /\ reqs[2].status = 200
    /\ reqs[1].existing = reqs[2].existing
    /\ reqs[1].patch # reqs[2].patch
    /\ reqs[2].over = 1
    /\ Cardinality(ItemRows) = 1

\* A key field of the body is present with a value other than the path's.
KeyDiffers(body, pk, rk) ==
    \/ Served.PrimaryKey.Field \in DOMAIN body /\ body[Served.PrimaryKey.Field] # JStr(pk)
    \/ /\ Served.RangeKey # Nil
       /\ Served.RangeKey.Field \in DOMAIN body
       /\ body[Served.RangeKey.Field] # JStr(rk)

\* C18: a PUT or PATCH whose body carries a primary or range key field with
\* a value other than the path's is answered 400 in the step that receives
\* it, and that step leaves the database as it was.
C18_KeyMismatchRejected ==
    [][ /\ (PutArrives /\ KeyDiffers(hist'.body, hist'.key[1], hist'.key[2])) =>
              (hist'.status = 400 /\ db' = db)
        /\ \A s \in Slots :
              (PatchArrives(s) /\ KeyDiffers(reqs'[s].patch, reqs'[s].pk, reqs'[s].rk)) =>
                  (reqs'[s].pc = "done" /\ reqs'[s].status = 400 /\ db' = db) ]_vars

\* A PUT that names another range key was answered 400 while the item of
\* the path exists.
C18_Witness ==
    /\ hist.op = "put" /\ hist.status = 400
    /\ Served.RangeKey # Nil
    /\ {Served.PrimaryKey.Field, Served.RangeKey.Field} \subseteq DOMAIN hist.body
    /\ hist.body[Served.RangeKey.Field] = JStr(<<"b">>)
    /\ hist.body[Served.PrimaryKey.Field] = JStr(hist.key[1])
    /\ ItemRows # {}

\* C19: a PATCH whose body omits the primary key field, or the range key
\* field of a range-keyed table, is answered 400 without a read.
C19_PatchRequiresKeys ==
    \A s \in Slots :
        ( /\ reqs[s].pc # "idle"
          /\ \/ Served.PrimaryKey.Field \notin DOMAIN reqs[s].patch
             \/ Served.RangeKey # Nil /\ Served.RangeKey.Field \notin DOMAIN reqs[s].patch )
        => (reqs[s].pc = "done" /\ reqs[s].status = 400 /\ ~reqs[s].found)

------------------------------------------------------------------------------
(* Fingerprint properties *)

\* The names a configuration declares, in declaration order: table names,
\* key field names, index names and index key field names.
KeyField(k) == IF k = Nil THEN "" ELSE k.Field

Structure(tables) ==
    [i \in 1..Len(tables) |->
        <<tables[i].Name, tables[i].PrimaryKey.Field, KeyField(tables[i].RangeKey),
          [m \in 1..Len(tables[i].Indexes) |->
              <<tables[i].Indexes[m].Name, tables[i].Indexes[m].PrimaryKey.Field,
                KeyField(tables[i].Indexes[m].RangeKey)>>]>>]

\* The same names without the declaration order.
Shape(tables) ==
    { <<s[1], s[2], s[3], { s[4][m] : m \in 1..Len(s[4]) }>> :
        s \in { Structure(tables)[i] : i \in 1..Len(tables) } }

\* The tables with all their attributes, without the declaration order.
Unordered(tables) ==
    { [tables[i] EXCEPT !.Indexes = { @[m] : m \in 1..Len(@) }] : i \in 1..Len(tables) }

\* C15: a configuration that differs from the one `api` was started with
\* only in key patterns, scan flags, document schema or index projection
\* has the same fingerprint; when it is the one `migrate` recorded, the
\* API serves.
C15_FingerprintIgnoresNonStructural ==
    \A cfg \in HashConfigs :
        (api.state # "down" /\ Structure(cfg) = Structure(api.tables)) =>
            /\ TablesConfigHash(cfg) = TablesConfigHash(api.tables)
            /\ PersistedHash(db) = TablesConfigHash(cfg) => api.state = "serving"

\* The API serves a configuration that differs in every attribute from a
\* configuration with the recorded fingerprint: a table with a range key
\* and an index.
C15_Witness ==
    /\ api.state = "serving"
    /\ \E cfg \in HashConfigs :
          /\ PersistedHash(db) = TablesConfigHash(cfg)
          /\ Structure(cfg) = Structure(api.tables)
          /\ cfg[1].RangeKey # Nil
          /\ Len(cfg[1].Indexes) = 1
          /\ cfg[1].PrimaryKey.Pattern # api.tables[1].PrimaryKey.Pattern
          /\ cfg[1].RangeKey.Pattern # api.tables[1].RangeKey.Pattern
          /\ cfg[1].AllowTableScan # api.tables[1].AllowTableScan
          /\ cfg[1].Schema # api.tables[1].Schema
          /\ cfg[1].Indexes[1].Projection # api.tables[1].Indexes[1].Projection
          /\ cfg[1].Indexes[1].AllowIndexScan # api.tables[1].Indexes[1].AllowIndexScan

\* C16: a configuration that differs from the one `api` was started with
\* in a table name, an index name or a key field name, or that has a table,
\* an index or a range key more or less, has another fingerprint; when it
\* is the one `migrate` recorded, the API does not serve.
C16_FingerprintTracksStructure ==
    \A cfg \in HashConfigs :
        (api.state # "down" /\ Shape(cfg) # Shape(api.tables)) =>
            /\ TablesConfigHash(cfg) # TablesConfigHash(api.tables)
            /\ PersistedHash(db) = TablesConfigHash(cfg) => api.state = "fatal"

\* The API refuses a configuration that differs from a configuration with
\* the recorded fingerprint in nothing but the range key field of an index.
C16_Witness ==
    /\ api.state = "fatal"
    /\ Len(api.tables) = 1
    /\ Len(api.tables[1].Indexes) = 1
    /\ api.tables[1].Indexes[1].RangeKey # Nil
    /\ \E cfg \in HashConfigs :
          /\ PersistedHash(db) = TablesConfigHash(cfg)
          /\ Len(cfg) = 1
          /\ Len(cfg[1].Indexes) = 1
          /\ [cfg[1] EXCEPT !.Indexes = <<>>] = [api.tables[1] EXCEPT !.Indexes = <<>>]
          /\ cfg[1].Indexes[1].RangeKey # Nil
          /\ [cfg[1].Indexes[1] EXCEPT !.RangeKey.Field = "x"]
                = [api.tables[1].Indexes[1] EXCEPT !.RangeKey.Field = "x"]
          /\ cfg[1].Indexes[1].RangeKey.Field # api.tables[1].Indexes[1].RangeKey.Field

\* C17: a configuration that is the one `api` was started with, its tables
\* or the indexes of its tables in another order, has the same fingerprint;
\* when it is the one `migrate` recorded, the API serves.
C17_FingerprintIgnoresOrder ==
    \A cfg \in HashConfigs :
        (api.state # "down" /\ Unordered(cfg) = Unordered(api.tables)) =>
            /\ TablesConfigHash(cfg) = TablesConfigHash(api.tables)
            /\ PersistedHash(db) = TablesConfigHash(cfg) => api.state = "serving"

\* The API serves two tables declared in the other order than in a
\* configuration with the recorded fingerprint, and the two indexes of one
\* of them in the other order.
C17_Witness ==
    /\ api.state = "serving"
    /\ Len(api.tables) = 2
    /\ Len(api.tables[1].Indexes) = 2
    /\ \E cfg \in HashConfigs :
          /\ PersistedHash(db) = TablesConfigHash(cfg)
          /\ Unordered(cfg) = Unordered(api.tables)
          /\ cfg[1] = api.tables[2]
          /\ cfg[2].Indexes = << api.tables[1].Indexes[2], api.tables[1].Indexes[1] >>

------------------------------------------------------------------------------
(* Cleanup properties *)

\* The tables the run found recorded in _meta that its configuration does
\* not name.
StaleTables ==
    { n \in DOMAIN mig.snapshot.meta :
        /\ n # metaConfigHashRowName
        /\ n \notin { mig.tables[i].Name : i \in 1..Len(mig.tables) } }

\* C20: after a migrate run with cleanup (not a dry run) that ended without
\* error, no table that was recorded in _meta and is not configured exists
\* any more, nor its indexes, nor its _meta row.
C20_CleanupDropsStale ==
    (Finished /\ mig.result = "ok" /\ mig.opts.Cleanup /\ ~mig.opts.DryRun) =>
        \A n \in StaleTables :
            /\ n \notin DOMAIN db.tables
            /\ n \notin DOMAIN db.meta
            /\ \A i \in db.indexes : i.tablename # n

\* A cleanup run ended without error on a database that held a recorded
\* table its configuration does not name.
C20_Witness ==
    /\ Finished /\ mig.result = "ok" /\ mig.opts.Cleanup /\ ~mig.opts.DryRun
    /\ \E n \in StaleTables :
          /\ n \in DOMAIN mig.snapshot.tables
          /\ n \notin DOMAIN db.tables
          /\ n \notin DOMAIN db.meta
    /\ DOMAIN db.tables = { mig.tables[i].Name : i \in 1..Len(mig.tables) }

\* ---- Pages and cursors ------------------------------------------------------

\* The results the open endpoint may give for the options opts.
Results(op, opts) ==
    LET th == Served
        iqc == IndexQueryConfig(th.Indexes[page.index])
    IN  CASE op = "listItems"  -> ListItems(db, th.Name, page.pk, th.RangeKey # Nil, opts)
          [] op = "scanTable"  -> ScanTable(db, th.Name, th.RangeKey # Nil, opts)
          [] op = "queryIndex" -> QueryIndex(db, th.Name, iqc, page.pk, opts)
          [] op = "scanIndex"  -> ScanIndex(db, th.Name, iqc, opts)

\* A step in which the open endpoint answers one call.
CallStep == page.op # "none" /\ page'.calls = page.calls + 1

\* The number of rows the call's filter and cursor leave: the length of the
\* answer to the same call with a limit above the number of rows stored.
Remaining ==
    LET full == CHOOSE r \in Results(page.op, [page.opts EXCEPT !.Limit = MaxRows + 1]) : TRUE
    IN  Len(full.Items)

\* C21: every page holds at most limit items (50 when no positive limit is
\* given): it holds the rows that remain, up to the limit.  A next cursor is
\* emitted exactly when more rows remain than the page holds, and a page
\* without a cursor is the final page.
C21_PageSizeAndCursor ==
    [][ CallStep =>
          LET got == Len(page'.items) - Len(page.items) IN
          /\ got <= PageSize
          /\ got = (IF Remaining <= PageSize THEN Remaining ELSE PageSize)
          /\ (page'.opts.Cursor # <<>>) <=> (Remaining > got)
          /\ page'.done <=> (page'.opts.Cursor = <<>>) ]_vars

\* A sequence of two pages at limit 2: a full page with a cursor, then a
\* final page of one row without a cursor.
C21_Witness ==
    /\ page.op \in {"listItems", "scanTable"}
    /\ page.opts.Limit = 2
    /\ page.calls = 2
    /\ Len(page.items) = 3
    /\ page.done
    /\ page.opts.Cursor = <<>>

Undecodable(cursorStr) == cursorStr # <<>> /\ decodeCursor(cursorStr).err

\* C22: a call with an absent or undecodable cursor is never an error and
\* returns a page that the same call made with no cursor may return.
C22_UndecodableCursorIsStart ==
    [][ (CallStep /\ (page.opts.Cursor = <<>> \/ Undecodable(page.opts.Cursor))) =>
          \E result \in Results(page.op, [page.opts EXCEPT !.Cursor = <<>>]) :
             page' = Follow(result) ]_vars

\* A call sent with an undecodable cursor returned rows.
C22_Witness ==
    /\ page.op # "none"
    /\ page.calls = 1
    /\ Undecodable(page.sent)
    /\ Len(page.items) > 0

\* The ORDER BY expressions of the open endpoint.
Ordering ==
    LET iqc == IndexQueryConfig(Served.Indexes[page.index]) IN
    IF page.op \in {"queryIndex", "scanIndex"}
    THEN [hasRK |-> iqc.RKField # "", pkExpr |-> JsonText(iqc.PKField),
          rkExpr |-> IF iqc.RKField # "" THEN JsonText(iqc.RKField) ELSE NoExpr]
    ELSE [hasRK |-> Served.RangeKey # Nil, pkExpr |-> Col("pk"), rkExpr |-> Col("rk")]

\* C25: the ordering applied to a multi-item result is total: no two
\* distinct rows of a result compare equal under it, for partition
\* listings, table scans, index queries and index scans alike.
C25_OrderingIsTotal ==
    page.op # "none" =>
        \A i, j \in 1..Len(page.items) :
            (/\ page.items[i] # page.items[j]
             /\ OrderLE(page.items[i], page.items[j],
                        Ordering.hasRK, Ordering.pkExpr, Ordering.rkExpr)
             /\ OrderLE(page.items[j], page.items[i],
                        Ordering.hasRK, Ordering.pkExpr, Ordering.rkExpr))
            => FALSE

\* ---- Stored payloads and racing writes ---------------------------------------

\* C24: after any sequence of puts and patches no stored payload contains
\* the table's primary key field or its range key field; the key values are
\* in the pk and rk columns only.
C24_PayloadHasNoKeyFields ==
    \A r \in ItemRows :
        /\ Served.PrimaryKey.Field \notin DOMAIN r.data
        /\ Served.RangeKey # Nil => Served.RangeKey.Field \notin DOMAIN r.data

\* In a table with a range key, a PATCH of an item that a PUT stored was
\* answered 200 with both keys in the response, and the row it wrote holds
\* other fields.
C24_Witness ==
    /\ Served.RangeKey # Nil
    /\ hist.op = "patch" /\ hist.status = 200
    /\ {Served.PrimaryKey.Field, Served.RangeKey.Field} \subseteq DOMAIN hist.resp
    /\ \E s \in Slots :
          /\ reqs[s].pc = "done" /\ reqs[s].status = 200
          /\ "status" \in DOMAIN reqs[s].patch
    /\ \E r \in ItemRows : r.pk = hist.key[1] /\ r.rk = hist.key[2] /\ DOMAIN r.data # {}

\* The rows of database d under the key of slot s.
RowsAt(d, s) ==
    { r \in d.tables[Served.Name].rows :
        r.pk = reqs[s].pk /\ (Served.RangeKey # Nil => r.rk = reqs[s].rk) }

\* C27: a PATCH never creates or re-creates an item: when its key has no
\* row at the time it writes (a DELETE of the key completed after its
\* read), the key has no row after it.
C27_PatchNeverRecreates ==
    [][ \A s \in Slots :
          (PatchWrites(s) /\ RowsAt(db, s) = {}) => RowsAt(db', s) = {} ]_vars

\* ---- What the serving process leaves alone -----------------------------------

\* The physical schema and the metadata of database d: _meta and its rows,
\* the tables with their key layout, and the indexes.
SchemaOf(d) ==
    [metaExists |-> d.metaExists, meta |-> d.meta, indexes |-> d.indexes,
     tables |-> [n \in DOMAIN d.tables |-> d.tables[n].hasRK]]

\* C23: no step of the serving process (its start-up and its request
\* handling) writes the stored fingerprint or creates, alters or drops a
\* table or an index.
C23_ServingNeverWritesSchema ==
    [][ SchemaOf(db') = SchemaOf(db) ]_vars

\* ---- Repeated and partial reconciliation -------------------------------------

\* An item for a table of the given key layout.
SampleRow(hasRK) ==
    [pk |-> <<"a">>, rk |-> IF hasRK THEN <<"a">> ELSE Null,
     data |-> [status |-> JStr(<<"a">>)]]

\* Database d with an item stored in every table.
WithRows(d) ==
    [d EXCEPT !.tables =
        [n \in DOMAIN d.tables |->
            [d.tables[n] EXCEPT !.rows = {SampleRow(d.tables[n].hasRK)}]]]

\* Physical storage agrees with the served configuration: every table
\* exists, and every index exists over exactly its declared key fields.
StorageAgrees(d, tables) ==
    \A i \in 1..Len(tables) :
        /\ tables[i].Name \in DOMAIN d.tables
        /\ \A m \in 1..Len(tables[i].Indexes) :
              LET idx == tables[i].Indexes[m] IN
              \E ix \in d.indexes :
                 /\ ix.tablename = tables[i].Name
                 /\ ix.indexname = IndexName(tables[i], idx)
                 /\ ix.fields = IF idx.RangeKey # Nil
                                THEN <<idx.PrimaryKey.Field, idx.RangeKey.Field>>
                                ELSE <<idx.PrimaryKey.Field>>

\* C26: whenever the start-up fingerprint check passes for a configuration
\* without the override, physical storage agrees with it: every configured
\* table exists and every configured index exists over exactly the key
\* fields declared, after any sequence of migrate runs.
C26_CheckPassedMeansStorageAgrees ==
    (api.state = "serving" /\ ~api.skip) => StorageAgrees(db, api.tables)

\* C29: reconciliation is idempotent: after a run in apply mode that
\* succeeded, and with items stored since, a second run of the same
\* configuration with the same options succeeds and leaves the tables, the
\* indexes, _meta with the fingerprint, and the items as they were.
C29_ReconcileIdempotent ==
    (Finished /\ mig.result = "ok" /\ ~mig.opts.DryRun) =>
        Migrate(WithRows(db), mig.tables, mig.opts) = Ok(WithRows(db))

\* A second run of a configuration with a table and an index ended without
\* error and left the database as it found it, as Migrate says.
C29_Witness ==
    /\ Finished /\ mig.result = "ok" /\ ~mig.opts.DryRun
    /\ mig.snapshot = db
    /\ Len(mig.tables) > 0
    /\ StorageAgrees(db, mig.tables)
    /\ \E i \in 1..Len(mig.tables) : Len(mig.tables[i].Indexes) > 0
    /\ PersistedHash(db) = TablesConfigHash(mig.tables)
    /\ Migrate(mig.snapshot, mig.tables, mig.opts) = Ok(db)

\* The database a run without cleanup leaves holds everything the database
\* it found held: every table with its key layout and items, every index,
\* and every _meta entry of a table.
Keeps(before, after) ==
    /\ DOMAIN before.tables \subseteq DOMAIN after.tables
    /\ \A n \in DOMAIN before.tables : after.tables[n] = before.tables[n]
    /\ before.indexes \subseteq after.indexes
    /\ before.metaExists => after.metaExists
    /\ \A n \in DOMAIN before.meta \ {metaConfigHashRowName} :
          n \in DOMAIN after.meta /\ after.meta[n] = before.meta[n]

\* C30: a migrate run without cleanup, whatever its outcome, drops no
\* table and no index and removes no _meta entry of a table, also for
\* tables and indexes its configuration does not name; the items of the
\* tables are untouched.
C30_NoCleanupKeepsEverything ==
    (Finished /\ ~mig.opts.Cleanup) =>
        /\ Keeps(mig.snapshot, db)
        /\ Keeps(WithRows(mig.snapshot),
                 Migrate(WithRows(mig.snapshot), mig.tables, mig.opts).d)

\* A run without cleanup ended without error on a database that held a
\* recorded table and an index of a configured table that its
\* configuration does not name: both are still there.
C30_Witness ==
    /\ Finished /\ mig.result = "ok" /\ ~mig.opts.Cleanup /\ ~mig.opts.DryRun
    /\ mig.snapshot # db
    /\ \E n \in StaleTables : n \in DOMAIN mig.snapshot.tables /\ n \in DOMAIN db.tables
    /\ \E ix \in mig.snapshot.indexes :
          /\ ix \in db.indexes
          /\ ~ix.constraint
          /\ \E i \in 1..Len(mig.tables) :
                /\ mig.tables[i].Name = ix.tablename
                /\ \A m \in 1..Len(mig.tables[i].Indexes) :
                      IndexName(mig.tables[i], mig.tables[i].Indexes[m]) # ix.indexname

\* ---- Pages while items are written -------------------------------------------

\* Row r is one the writers may have written since the sequence began.
MaybeWritten(r) ==
    /\ hist.n # page.since
    /\ \E k \in LiveKeys : r.pk = k[1] /\ (Served.RangeKey # Nil => r.rk = k[2])

\* The number of times the item of row r was returned in the sequence.
TimesReturned(r) ==
    Cardinality({ i \in 1..Len(page.items) :
                    page.items[i].pk = r.pk /\ page.items[i].rk = rowData(r).rk })

\* C28: when a page sequence over a table scan or a partition listing has
\* ended, every item the endpoint is asked for that was stored, unchanged,
\* from the first call to the last was returned exactly once, whatever
\* other items were put or deleted between the calls.
C28_StablePagesUnderWrites ==
    (page.op \in {"listItems", "scanTable"} /\ page.done) =>
        \A r \in TableRows :
            ((page.op = "listItems" => r.pk = page.pk) /\ ~MaybeWritten(r)) =>
                /\ TimesReturned(r) = 1
                /\ rowData(r) \in ItemSet

\* A table scan of several pages ended with no write after its last call:
\* the row its last cursor points at had been returned and was deleted
\* before that call, it is not returned again, and two unchanged items
\* were returned.
C28_Witness ==
    /\ page.op = "scanTable" /\ page.done
    /\ page.calls >= 2
    /\ hist.n = page.at
    /\ page.at > page.since
    /\ page.sent # <<>>
    /\ \A r \in TableRows : r.pk # decodeCursor(page.sent).c.PK
    /\ \E i \in 1..Len(page.items) : page.items[i].pk = decodeCursor(page.sent).c.PK
    /\ Cardinality({ r \in TableRows : ~MaybeWritten(r) /\ rowData(r) \in ItemSet }) >= 2

====
